---------------------------- MODULE Spec2Model ----------------------------
(***************************************************************************)
(* Model of the Blackboard question converter: the metadata normalizer,    *)
(* the block parsers of the tab-delimited path (script) and of the QTI     *)
(* archive path (qti_export.js), convertQuestions and downloadQTI.         *)
(*                                                                         *)
(* A JavaScript string is a sequence of characters, each character a       *)
(* one-character TLA+ string; the Arabic letters the source names are the  *)
(* tokens "U0627", "U062F", ... (their code points).                        *)
(***************************************************************************)
EXTENDS Integers, Sequences, FiniteSets, TLC

VARIABLES
    nIn,            \* normalizer run: the input string
    nOut,           \* normalizer run: stripSEUMetadata / stripQTIMetadata results
    nPc,            \* normalizer run: "idle" | "input" | "once" | "twice"
    pKind,          \* parser run: the kind of the block
    pBlock,         \* parser run: the raw block
    pTab,           \* parser run: result of the tab-delimited parser
    pQti,           \* parser run: result of the archive parser
    pPc,            \* parser run: "idle" | "input" | "tab" | "both"
    texts,          \* the seven input buffers (textarea values), by kind
    outputText,     \* the output buffer (outputText.value)
    errors,         \* the error list convertQuestions collected
    totalQuestions, \* the converted-question count of the last conversion
    cPc,            \* conversion run: "idle" | "edit" | "converted"
    xIn,            \* prefix run: the text handed to the prefix extractors
    xOut,           \* prefix run: what extractQuestionPrefix / extractQTIPrefix returned
    xPc,            \* prefix run: which of the two extractors has run
    sKind,          \* split run: the kind of the buffer
    sText,          \* split run: the text of the buffer
    sBlocks,        \* split run: the blocks convertQuestions / processTextArea loop over
    sPc,            \* split run: which of the two has split the buffer
    pXml,           \* parser run: the document the item generator made of pQti
    bBlocks,        \* batch run: the blocks of each buffer, as convertQuestions split them
    zip,            \* download run: the files of the JSZip archive, path and content
    items,          \* download run: the items array of downloadQTI
    hasQuestions,   \* download run: the hasQuestions flag of downloadQTI
    notified,       \* download run: the notifications and alerts shown
    offered,        \* download run: the downloads handed to the browser (link.click())
    dPc             \* download run: "idle" | "ready" | "generating" | "done"

vars == <<nIn, nOut, nPc, pKind, pBlock, pTab, pQti, pPc,
          texts, outputText, errors, totalQuestions, cPc, xIn, xOut, xPc,
          sKind, sText, sBlocks, sPc, bBlocks, pXml,
          zip, items, hasQuestions, notified, offered, dPc>>

---------------------------------------------------------------------------
(* Characters                                                              *)

LowerLetters == <<"a","b","c","d","e","f","g","h","i","j","k","l","m",
                  "n","o","p","q","r","s","t","u","v","w","x","y","z">>
UpperLetters == <<"A","B","C","D","E","F","G","H","I","J","K","L","M",
                  "N","O","P","Q","R","S","T","U","V","W","X","Y","Z">>

\* String.prototype.toLowerCase on one character
ToLowerChar(c) ==
    IF \E i \in 1..Len(UpperLetters) : UpperLetters[i] = c
    THEN LowerLetters[CHOOSE i \in 1..Len(UpperLetters) : UpperLetters[i] = c]
    ELSE c

ToLowerCase(s) == [i \in 1..Len(s) |-> ToLowerChar(s[i])]

\* the class [a-z] of the source's regular expressions
Latin == {LowerLetters[i] : i \in 1..Len(LowerLetters)}
\* the part of the range U+0600..U+06FF the source's patterns name
Arabic == {"U0627","U0644","U0648","U062D","U062F","U0629","U0645","U0633",
           "U062A","U0649","U0635","U0639","U0628","U0646","U062E","U0641",
           "U0636","U0637","U064A","U0643","U0631","U0624","U0623"}
Letter == Latin \cup Arabic
\* The range U+0600..U+06FF holds more than letters: of the rest, the digit
\* U+0661 (ARABIC-INDIC DIGIT ONE) and the comma U+060C stand here.
ArabicRange == Arabic \cup {"U0661", "U060C"}
LetterRange == Latin \cup ArabicRange   \* [a-z U+0600-U+06FF] under the i flag
Digit  == {"0","1","2","3","4","5","6","7","8","9"}   \* \d
Space  == {" ", "\t", "\n", "\r"}                      \* \s

---------------------------------------------------------------------------
(* Regular expressions.  A pattern is a sequence of elements; an element   *)
(* is a literal, an alternation of literals, or a character class with a   *)
(* quantifier.  Matching ignores case, as the i flag does (every pattern   *)
(* of the source that names a letter carries it).                          *)

Lit(w)     == [t |-> "lit", w |-> w,    alts |-> <<>>, set |-> {}, neg |-> FALSE, lo |-> 1, many |-> FALSE]
Alt(a)     == [t |-> "alt", w |-> <<>>, alts |-> a,    set |-> {}, neg |-> FALSE, lo |-> 1, many |-> FALSE]
One(S)     == [t |-> "cls", w |-> <<>>, alts |-> <<>>, set |-> S,  neg |-> FALSE, lo |-> 1, many |-> FALSE]
Opt(S)     == [t |-> "cls", w |-> <<>>, alts |-> <<>>, set |-> S,  neg |-> FALSE, lo |-> 0, many |-> FALSE]
Star(S)    == [t |-> "cls", w |-> <<>>, alts |-> <<>>, set |-> S,  neg |-> FALSE, lo |-> 0, many |-> TRUE]
Plus(S)    == [t |-> "cls", w |-> <<>>, alts |-> <<>>, set |-> S,  neg |-> FALSE, lo |-> 1, many |-> TRUE]
NotStar(S) == [t |-> "cls", w |-> <<>>, alts |-> <<>>, set |-> S,  neg |-> TRUE,  lo |-> 0, many |-> TRUE]

\* TLC evaluates an argument of an operator where it is first used, inside
\* whatever is being evaluated there.  Evaluated(v) is TRUE, and evaluates v
\* where it stands: a chain of steps is then evaluated step by step.
Evaluated(v) == v = v

SetMax(S) == CHOOSE x \in S : \A y \in S : y <= x
SetMin(S) == CHOOSE x \in S : \A y \in S : x <= y

\* does the literal w occur in s at position i (ignoring case)
LitAt(w, s, i) ==
    /\ i + Len(w) - 1 <= Len(s)
    /\ \A k \in 1..Len(w) : ToLowerChar(s[i + k - 1]) = ToLowerChar(w[k])

InClass(e, c) == IF e.neg THEN c \notin e.set ELSE ToLowerChar(c) \in e.set

\* the number of characters from position i on that the class of e accepts
ClassRun(e, s, i) ==
    LET stop == {j \in i..Len(s) : ~InClass(e, s[j])}
        run  == IF stop = {} THEN Len(s) - i + 1 ELSE SetMin(stop) - i
    IN IF e.many \/ run = 0 THEN run ELSE 1

\* The end (the position after the match) of the match of elements k.. of re
\* at position i, as the backtracking matcher finds it: {} when there is
\* none, else a singleton.  A quantifier is greedy, an alternation takes its
\* first alternative that lets the rest match.
RECURSIVE MatchAt(_, _, _, _)
MatchAt(re, k, s, i) ==
    IF k > Len(re) THEN {i}
    ELSE CASE re[k].t = "lit" ->
             IF LitAt(re[k].w, s, i) THEN MatchAt(re, k + 1, s, i + Len(re[k].w)) ELSE {}
        [] re[k].t = "alt" ->
             LET ok == {a \in 1..Len(re[k].alts) :
                          /\ LitAt(re[k].alts[a], s, i)
                          /\ MatchAt(re, k + 1, s, i + Len(re[k].alts[a])) # {}}
             IN IF ok = {} THEN {}
                ELSE MatchAt(re, k + 1, s, i + Len(re[k].alts[SetMin(ok)]))
        [] re[k].t = "cls" ->
             LET ok == {n \in re[k].lo..ClassRun(re[k], s, i) :
                          MatchAt(re, k + 1, s, i + n) # {}}
             IN IF ok = {} THEN {} ELSE MatchAt(re, k + 1, s, i + SetMax(ok))

\* RegExp.prototype.test for the pattern at position i of s
MatchesAt(re, s, i) == MatchAt(re, 1, s, i) # {}

\* String.prototype.replace(re, rep) with the g flag: every match, left to
\* right, none overlapping (no pattern of the source matches the empty
\* string).  The text up to position i has become `done`:
RECURSIVE ReplaceFrom(_, _, _, _, _)

\* the match at position j replaced
ReplaceNext(re, rep, s, i, done, j) ==
    ReplaceFrom(re, rep, s, SetMax(MatchAt(re, 1, s, j)), done \o SubSeq(s, i, j - 1) \o rep)

ReplaceFrom(re, rep, s, i, done) ==
    IF Evaluated(done) /\ \A j \in i..Len(s) : ~MatchesAt(re, s, j)
    THEN done \o SubSeq(s, i, Len(s))
    ELSE ReplaceNext(re, rep, s, i, done, SetMin({j \in i..Len(s) : MatchesAt(re, s, j)}))

ReplaceAll(re, rep, s) == ReplaceFrom(re, rep, s, 1, <<>>)

\* replace(re, '') for a pattern anchored with ^ and without the g flag
ReplaceAtStart(re, s) ==
    IF MatchesAt(re, s, 1) THEN SubSeq(s, SetMax(MatchAt(re, 1, s, 1)), Len(s)) ELSE s

\* String.prototype.trim
Trim(s) ==
    LET keep == {j \in 1..Len(s) : s[j] \notin Space} IN
    IF keep = {} THEN <<>> ELSE SubSeq(s, SetMin(keep), SetMax(keep))

\* String.prototype.includes for a single character
Includes(s, c) == \E i \in 1..Len(s) : s[i] = c
\* String.prototype.includes for a word
IncludesWord(s, w) == \E i \in 1..Len(s) : i + Len(w) - 1 <= Len(s) /\
                         \A k \in 1..Len(w) : s[i + k - 1] = w[k]

\* String.prototype.split, the separators being the characters at the
\* positions `at`
SplitAt(s, at) ==
    LET \* the k-th separator; position 0 and Len(s) + 1 bound the text
        sep(k) == IF k = 0 THEN 0
                  ELSE IF k > Cardinality(at) THEN Len(s) + 1
                  ELSE CHOOSE j \in at : Cardinality({q \in at : q < j}) = k - 1
    IN [k \in 1..(Cardinality(at) + 1) |-> SubSeq(s, sep(k - 1) + 1, sep(k) - 1)]

\* String.prototype.split on one separator character
Split(s, c) == SplitAt(s, {j \in 1..Len(s) : s[j] = c})

\* Array.prototype.join
RECURSIVE Join(_, _)
Join(parts, sep) ==
    IF parts = <<>> THEN <<>>
    ELSE IF Len(parts) = 1 THEN parts[1]
    ELSE parts[1] \o sep \o Join(Tail(parts), sep)

\* Array.prototype.filter(x => x !== '')
RECURSIVE FilterNonEmpty(_)
FilterNonEmpty(xs) ==
    IF xs = <<>> THEN <<>>
    ELSE IF Head(xs) # <<>> THEN <<Head(xs)>> \o FilterNonEmpty(Tail(xs))
    ELSE FilterNonEmpty(Tail(xs))

\* text.split('\n').map(line => line.trim()).filter(line => line !== '')
TrimmedLines(text) ==
    LET raw == Split(text, "\n") IN
    FilterNonEmpty([i \in 1..Len(raw) |-> Trim(raw[i])])

---------------------------------------------------------------------------
(* The metadata patterns                                                   *)

\* the literal words of the patterns (the Arabic ones by code point)
Words == [
    LO          |-> <<"L","O">>,
    CLO         |-> <<"C","L","O">>,
    Module      |-> <<"M","o","d","u","l","e">>,
    Difficulty  |-> <<"D","i","f","f","i","c","u","l","t","y">>,
    Level       |-> <<"L","e","v","e","l">>,
    Leve        |-> <<"L","e","v","e">>,
    Author      |-> <<"A","u","t","h","o","r">>,
    Low         |-> <<"L","o","w">>,
    Mid         |-> <<"M","i","d">>,
    High        |-> <<"H","i","g","h">>,
    Dr          |-> <<"D","r">>,
    DrDot       |-> <<"D","r",".">>,
    LaDot       |-> <<"L","a",".">>,
    AlWahda     |-> <<"U0627","U0644","U0648","U062D","U062F","U0629">>,
    Wahda       |-> <<"U0648","U062D","U062F","U0629">>,
    Mustawa     |-> <<"U0645","U0633","U062A","U0648","U0649">>,
    AlSuuba     |-> <<"U0627","U0644","U0635","U0639","U0648","U0628","U0629">>,
    Suuba       |-> <<"U0635","U0639","U0648","U0628","U0629">>,
    Munkhafid   |-> <<"U0645","U0646","U062E","U0641","U0636">>,
    Mutawassit  |-> <<"U0645","U062A","U0648","U0633","U0637">>,
    Aali        |-> <<"U0639","U0627","U0644","U064A">>,
    Dal         |-> <<"U062F">>,
    DalDot      |-> <<"U062F",".">>,
    Duktur      |-> <<"U062F","U0643","U062A","U0648","U0631">>,
    AlMuallif   |-> <<"U0627","U0644","U0645","U0624","U0644","U0641">> ]

\* METADATA_PATTERNS (and, element for element, QTI_METADATA_PATTERNS)
METADATA_PATTERNS == <<
    << Lit(<<"(">>), Lit(Words.LO), Plus(Digit), Lit(<<")">>) >>,
    << Lit(<<"(">>), Lit(Words.CLO), Plus(Digit), Lit(<<")">>) >>,
    << Lit(<<"[">>), Lit(Words.Module), Plus(Space), Plus(Digit), Lit(<<"]">>) >>,
    << Lit(<<"[">>), Lit(Words.AlWahda), Plus(Space), Plus(Digit), Lit(<<"]">>) >>,
    << Lit(<<"[">>), Lit(Words.Module), Star(Space), Plus(Digit), Lit(<<"]">>) >>,
    << Lit(<<"[">>), Lit(Words.AlWahda), Star(Space), Plus(Digit), Lit(<<"]">>) >>,
    << Lit(<<"[">>), Lit(Words.Difficulty), Plus(Space), Lit(Words.Leve), Opt({"l"}),
       Lit(<<":">>), Star(Space), Alt(<<Words.Low, Words.Mid, Words.High>>), Lit(<<"]">>) >>,
    << Lit(<<"[">>), Lit(Words.Mustawa), Plus(Space), Lit(Words.AlSuuba), Lit(<<":">>),
       Star(Space),
       Alt(<<Words.Munkhafid, Words.Mutawassit, Words.Aali, Words.Low, Words.Mid, Words.High>>),
       Lit(<<"]">>) >>,
    << Lit(<<"(">>), NotStar({")"}),
       Alt(<<Words.DrDot, Words.LaDot, Words.Dr, Words.Author, Words.DalDot, Words.Duktur, Words.AlMuallif>>),
       NotStar({")"}), Lit(<<")">>) >>,
    << Lit(<<"(">>), NotStar({")"}), Lit(Words.Dr), NotStar({")"}), Lit(<<")">>) >>,
    << Lit(<<"(">>), NotStar({")"}), Lit(Words.Dal), NotStar({")"}), Lit(<<")">>) >>,
    << Lit(<<"(">>), NotStar({")"}),
       Alt(<<Words.LO, Words.CLO, Words.Module, Words.Difficulty, Words.Level, Words.Author>>),
       NotStar({")"}), Lit(<<")">>) >>,
    << Lit(<<"[">>), NotStar({"]"}),
       Alt(<<Words.Module, Words.Difficulty, Words.Level, Words.Author, Words.Wahda, Words.Suuba, Words.Mustawa>>),
       NotStar({"]"}), Lit(<<"]">>) >> >>

\* QUESTION_PATTERNS.NUMBERED  /^\d+\.\s+/
NUMBERED == << Plus(Digit), Lit(<<".">>), Plus(Space) >>
\* QUESTION_PATTERNS.LETTERED  /^[a-z\u0600-\u06FF]\)\s+/i
LETTERED == << One(LetterRange), Lit(<<")">>), Plus(Space) >>
\* the choice marker  /^[a-z\u0600-\u06FF]\)?\s*\.?\s*/i
CHOICE_PREFIX == << One(LetterRange), Opt({")"}), Star(Space), Opt({"."}), Star(Space) >>
\* /\s+/g and /\*/g
WHITESPACE == << Plus(Space) >>
ASTERISK   == << Lit(<<"*">>) >>

---------------------------------------------------------------------------
(* The normalizer                                                          *)

maxIterations == 5

\* METADATA_PATTERNS.forEach(pattern => cleaned = cleaned.replace(pattern, ''))
\* (no pattern matches in the empty string, which is returned as it is)
RECURSIVE ApplyPatterns(_, _, _)
ApplyPatterns(pats, k, s) ==
    IF k > Len(pats) \/ s = <<>> THEN s
    ELSE ApplyPatterns(pats, k + 1, ReplaceAll(pats[k], <<>>, s))

\* do { ... } while (cleaned.length !== previousLength && iterations < max):
\* the text after the loop, `iterations` passes having been made before
RECURSIVE StripLoop(_, _)

\* the loop test, after the pass that turned `previous` into `cleaned`
StripWhile(previous, cleaned, iterations) ==
    IF Len(cleaned) # Len(previous) /\ iterations < maxIterations
    THEN StripLoop(cleaned, iterations)
    ELSE cleaned

StripLoop(cleaned, iterations) ==
    StripWhile(cleaned, ApplyPatterns(METADATA_PATTERNS, 1, cleaned), iterations + 1)

\* CollapseSpaces without the replace: the text is only trimmed
CollapseSpacesTrimOnly(cleaned) ==
    IF cleaned = <<>> THEN <<>> ELSE Trim(cleaned)

\* cleaned.replace(/\s+/g, ' ').trim()
CollapseSpaces(cleaned) ==
    IF cleaned = <<>> THEN <<>> ELSE Trim(ReplaceAll(WHITESPACE, <<" ">>, cleaned))

stripSEUMetadata(text) ==
    IF text = <<>> THEN <<>> ELSE CollapseSpaces(StripLoop(text, 0))

\* qti_export.js repeats the function with the same pattern list and cap
stripQTIMetadata(text) ==
    IF text = <<>> THEN <<>> ELSE CollapseSpaces(StripLoop(text, 0))

\* the text without its leading marker
WithoutPrefix(re, text) == Trim(ReplaceAtStart(re, text))

\* extractQuestionPrefix(text).cleaned
extractQuestionPrefix(text) ==
    IF MatchesAt(NUMBERED, text, 1) THEN WithoutPrefix(NUMBERED, text)
    ELSE IF MatchesAt(LETTERED, text, 1) THEN WithoutPrefix(LETTERED, text)
    ELSE Trim(text)

\* the text a pattern anchored with ^ matches at the start of `text`
MatchedAtStart(re, text) == SubSeq(text, 1, SetMax(MatchAt(re, 1, text, 1)) - 1)

\* extractQuestionPrefix(text).prefix
PrefixOfQuestion(text) ==
    IF MatchesAt(NUMBERED, text, 1) THEN MatchedAtStart(NUMBERED, text)
    ELSE IF MatchesAt(LETTERED, text, 1) THEN MatchedAtStart(LETTERED, text)
    ELSE <<>>

\* extractQTIPrefix(text).prefix
PrefixOfQTI(text) ==
    IF MatchesAt(NUMBERED, text, 1) THEN MatchedAtStart(NUMBERED, text)
    ELSE IF MatchesAt(LETTERED, text, 1) THEN MatchedAtStart(LETTERED, text)
    ELSE <<>>

\* extractQTIPrefix(text).cleaned
extractQTIPrefix(text) ==
    IF MatchesAt(NUMBERED, text, 1) THEN WithoutPrefix(NUMBERED, text)
    ELSE IF MatchesAt(LETTERED, text, 1) THEN WithoutPrefix(LETTERED, text)
    ELSE Trim(text)

---------------------------------------------------------------------------
(* Rows, results and records                                               *)

TAB == <<"\t">>
NL  == <<"\n">>

\* QUESTION_TYPES
K_MC  == <<"M","C">>
K_MA  == <<"M","A">>
K_TF  == <<"T","F">>
K_ESS == <<"E","S","S">>
K_MAT == <<"M","A","T">>
K_FIB == <<"F","I","B">>
K_NUM == <<"N","U","M">>

S_correct   == <<"c","o","r","r","e","c","t">>
S_incorrect == <<"i","n","c","o","r","r","e","c","t">>
S_true      == <<"t","r","u","e">>
S_false     == <<"f","a","l","s","e">>

\* what a tab-delimited parser does: return a row, or throw Error(msg)
Row(fields) == [ok |-> TRUE,  row |-> Join(fields, TAB), msg |-> ""]
Throw(msg)  == [ok |-> FALSE, row |-> <<>>,              msg |-> msg]

\* generateUUID(): the k-th identifier a run draws.  The identifiers are
\* random; what the model keeps of them is that two draws differ.
generateUUID(k) == <<"u", "u", "i", "d", "-", ToString(k)>>

\* what an archive parser returns: a record, or null.  A parser that draws
\* no identifier for its answers draws one, for the record.
NoRecord == [ok |-> FALSE, type |-> "", id |-> <<>>, question |-> <<>>,
             choices |-> <<>>, correctAnswer |-> FALSE, answers |-> <<>>,
             pairs |-> <<>>, answer |-> <<>>, hasTolerance |-> FALSE,
             tolerance |-> <<>>]
Record(type, question) == [NoRecord EXCEPT !.ok = TRUE, !.type = type,
                                          !.id = generateUUID(1),
                                          !.question = question]

RECURSIVE Flatten(_)
Flatten(xss) == IF xss = <<>> THEN <<>> ELSE Head(xss) \o Flatten(Tail(xss))

\* Array.prototype.filter for choices: keep those with a non-empty text
RECURSIVE KeepChoices(_)
KeepChoices(cs) ==
    IF cs = <<>> THEN <<>>
    ELSE IF Head(cs).text # <<>> THEN <<Head(cs)>> \o KeepChoices(Tail(cs))
    ELSE KeepChoices(Tail(cs))

---------------------------------------------------------------------------
(* The tab-delimited parsers                                               *)

\* one pass of the choice loop of parseMCQ / parseMultipleAnswer, on the
\* line with its metadata stripped
ChoiceOfLine(choiceLine) ==
    [isCorrect |-> Includes(choiceLine, "*"),
     text |-> Trim(ReplaceAll(ASTERISK, <<>>,
                              Trim(ReplaceAtStart(CHOICE_PREFIX, choiceLine))))]

ChoiceOf(rawLine) == ChoiceOfLine(stripSEUMetadata(rawLine))

\* ChoicesOf without the `if (choice)` test: the empty choices are kept
ChoicesOfUnfiltered(rawLines) ==
    [i \in 1..(Len(rawLines) - 1) |-> ChoiceOf(rawLines[i + 1])]

\* the choices array after the loop: the empty choices are skipped
ChoicesOf(rawLines) ==
    KeepChoices([i \in 1..(Len(rawLines) - 1) |-> ChoiceOf(rawLines[i + 1])])

\* ChoiceFields with the two tags the wrong way round
ChoiceFieldsSwapped(choices) ==
    Flatten([i \in 1..Len(choices) |->
               <<choices[i].text,
                 IF choices[i].isCorrect THEN S_incorrect ELSE S_correct>>])

ChoiceFields(choices) ==
    Flatten([i \in 1..Len(choices) |->
               <<choices[i].text,
                 IF choices[i].isCorrect THEN S_correct ELSE S_incorrect>>])

\* the checks of parseMCQ after the choice loop, and its row
MCQRow(question, choices) ==
    IF Trim(question) = <<>>
    THEN Throw("MCQ parsing error: MCQ question text is required")
    ELSE IF Len(choices) = 0
    THEN Throw("MCQ parsing error: MCQ must have at least one choice")
    ELSE IF \A i \in 1..Len(choices) : ~choices[i].isCorrect
    THEN Throw("MCQ parsing error: MCQ must have at least one correct answer")
    ELSE Row(<<K_MC, question>> \o ChoiceFields(choices))

MCQOfLines(rawLines) ==
    IF Len(rawLines) < 2
    THEN Throw("MCQ parsing error: MCQ must have at least a question and one choice")
    ELSE MCQRow(extractQuestionPrefix(stripSEUMetadata(rawLines[1])),
                ChoicesOf(rawLines))

parseMCQ(text) == MCQOfLines(TrimmedLines(text))

MARow(question, choices) ==
    IF Trim(question) = <<>>
    THEN Throw("Multiple Answer parsing error: Multiple Answer question text is required")
    ELSE IF Len(choices) = 0
    THEN Throw("Multiple Answer parsing error: Multiple Answer must have at least one choice")
    ELSE IF \A i \in 1..Len(choices) : ~choices[i].isCorrect
    THEN Throw("Multiple Answer parsing error: Multiple Answer must have at least one correct answer")
    ELSE Row(<<K_MA, question>> \o ChoiceFields(choices))

MAOfLines(rawLines) ==
    IF Len(rawLines) < 2
    THEN Throw("Multiple Answer parsing error: Multiple Answer must have at least a question and one choice")
    ELSE MARow(extractQuestionPrefix(stripSEUMetadata(rawLines[1])),
               ChoicesOf(rawLines))

parseMultipleAnswer(text) == MAOfLines(TrimmedLines(text))

EssayRow(question) ==
    IF question = <<>>
    THEN Throw("Essay parsing error: Essay question text is required")
    ELSE Row(<<K_ESS, question, <<>> >>)

parseEssay(text) == EssayRow(extractQuestionPrefix(stripSEUMetadata(text)))

\* the answer loop of parseTrueFalse from line i on: the first line that is
\* marked and names true or false decides (break); without one, 'false'
RECURSIVE TFAnswer(_, _)
TFAnswer(lines, i) ==
    IF i > Len(lines) THEN S_false
    ELSE IF IncludesWord(ToLowerCase(lines[i]), S_true) /\ Includes(lines[i], "*")
         THEN S_true
    ELSE IF IncludesWord(ToLowerCase(lines[i]), S_false) /\ Includes(lines[i], "*")
         THEN S_false
    ELSE TFAnswer(lines, i + 1)

\* the lines parseTrueFalse and parseMatching work on: the whole block goes
\* through stripSEUMetadata first, and is split after that
StrippedLines(text) == TrimmedLines(stripSEUMetadata(text))

TFRow(question, lines) ==
    IF question = <<>>
    THEN Throw("True/False parsing error: True/False question text is required")
    ELSE Row(<<K_TF, question, TFAnswer(lines, 2)>>)

TFOfLines(lines) ==
    IF Len(lines) < 1
    THEN Throw("True/False parsing error: True/False question text is required")
    ELSE TFRow(extractQuestionPrefix(lines[1]), lines)

parseTrueFalse(text) == TFOfLines(StrippedLines(text))

\* FIBAnswers without the test that skips the empty answers
FIBAnswersUnfiltered(rawLines) ==
    [i \in 1..(Len(rawLines) - 1) |-> Trim(stripSEUMetadata(rawLines[i + 1]))]

\* the answers array of parseFillInBlank
FIBAnswers(rawLines) ==
    FilterNonEmpty([i \in 1..(Len(rawLines) - 1) |->
                      Trim(stripSEUMetadata(rawLines[i + 1]))])

FIBRow(question, answers) ==
    IF Trim(question) = <<>>
    THEN Throw("Fill in the Blank parsing error: Fill in the Blank question text is required")
    ELSE IF Len(answers) = 0
    THEN Throw("Fill in the Blank parsing error: Fill in the Blank must have at least one answer")
    ELSE Row(<<K_FIB, question>> \o answers)

FIBOfLines(rawLines) ==
    IF Len(rawLines) < 1
    THEN Throw("Fill in the Blank parsing error: Fill in the Blank question text is required")
    ELSE FIBRow(extractQuestionPrefix(stripSEUMetadata(rawLines[1])),
                FIBAnswers(rawLines))

parseFillInBlank(text) == FIBOfLines(TrimmedLines(text))

\* line.split(/\s+/).filter(p => p !== '')
Tokens(line) == FilterNonEmpty(Split(ReplaceAll(WHITESPACE, <<" ">>, line), " "))

\* the pair of one line: a line of fewer than two tokens contributes nothing
PairOfParts(parts) ==
    IF Len(parts) >= 2 THEN << <<parts[1], Join(Tail(parts), <<" ">>)>> >>
    ELSE <<>>

\* the pairs array of parseMatching / parseMatchingData
PairsOf(lines, i) ==
    Flatten([j \in 1..(Len(lines) - i + 1) |-> PairOfParts(Tokens(lines[i + j - 1]))])

MatchingRow(question, pairs) ==
    IF question = <<>>
    THEN Throw("Matching parsing error: Matching question text is required")
    ELSE IF Len(pairs) = 0
    THEN Throw("Matching parsing error: Matching must have at least one answer pair")
    ELSE Row(<<K_MAT, question>> \o Flatten(pairs))

MatchingOfLines(lines) ==
    IF Len(lines) < 2
    THEN Throw("Matching parsing error: Matching must have at least a question and one answer pair")
    ELSE MatchingRow(extractQuestionPrefix(lines[1]), PairsOf(lines, 2))

parseMatching(text) == MatchingOfLines(StrippedLines(text))

\* NumericRow with the tolerance field written whether or not it is empty
NumericRowAlwaysTolerance(question, answer, tolerance) ==
    IF Trim(question) = <<>>
    THEN Throw("Numeric Response parsing error: Numeric Response question text is required")
    ELSE IF answer = <<>>
    THEN Throw("Numeric Response parsing error: Numeric Response must have an answer")
    ELSE Row(<<K_NUM, question, answer, tolerance>>)

NumericRow(question, answer, tolerance) ==
    IF Trim(question) = <<>>
    THEN Throw("Numeric Response parsing error: Numeric Response question text is required")
    ELSE IF answer = <<>>
    THEN Throw("Numeric Response parsing error: Numeric Response must have an answer")
    ELSE IF tolerance # <<>>
    THEN Row(<<K_NUM, question, answer, tolerance>>)
    ELSE Row(<<K_NUM, question, answer>>)

\* rawLines[k] with its metadata stripped and trimmed, '' when there is no
\* such line
StrippedLineOr(rawLines, k) ==
    IF Len(rawLines) >= k THEN Trim(stripSEUMetadata(rawLines[k])) ELSE <<>>

NumericOfLines(rawLines) ==
    IF Len(rawLines) < 1
    THEN Throw("Numeric Response parsing error: Numeric Response question text is required")
    ELSE NumericRow(extractQuestionPrefix(stripSEUMetadata(rawLines[1])),
                    StrippedLineOr(rawLines, 2), StrippedLineOr(rawLines, 3))

parseNumericResponse(text) == NumericOfLines(TrimmedLines(text))

---------------------------------------------------------------------------
(* The archive parsers (qti_export.js)                                     *)

\* one pass of the choice loop of parseMCQData, on the line with its
\* metadata stripped
QtiChoiceOfLine(choiceLine) ==
    [isCorrect |-> Includes(choiceLine, "*"),
     text |-> Trim(ReplaceAll(ASTERISK, <<>>,
                              ReplaceAtStart(CHOICE_PREFIX, choiceLine)))]

QtiChoiceOf(rawLine) == QtiChoiceOfLine(stripQTIMetadata(rawLine))

\* choices.push({ id: generateUUID(), text: choice, isCorrect }): the kept
\* choices draw their identifiers in order, before the record draws its own
WithIds(choices) ==
    [j \in 1..Len(choices) |->
        [id |-> generateUUID(j), text |-> choices[j].text,
         isCorrect |-> choices[j].isCorrect]]

MCQData(question, choices) ==
    IF question = <<>> THEN NoRecord
    ELSE IF Len(choices) = 0 \/ ~(\E i \in 1..Len(choices) : choices[i].isCorrect)
    THEN NoRecord
    ELSE [Record("MCQ", question) EXCEPT !.choices = WithIds(choices),
                                         !.id = generateUUID(Len(choices) + 1)]

MCQDataOfLines(rawLines) ==
    IF Len(rawLines) < 2 THEN NoRecord
    ELSE MCQData(extractQTIPrefix(stripQTIMetadata(rawLines[1])),
                 KeepChoices([i \in 1..(Len(rawLines) - 1) |->
                                QtiChoiceOf(rawLines[i + 1])]))

parseMCQData(text) == MCQDataOfLines(TrimmedLines(text))

EssayData(question) ==
    IF question = <<>> THEN NoRecord ELSE Record("ESSAY", question)

parseEssayData(text) == EssayData(extractQTIPrefix(stripQTIMetadata(text)))

TFData(question, lines) ==
    IF question = <<>> THEN NoRecord
    ELSE [Record("TF", question) EXCEPT !.correctAnswer =
            \E i \in 2..Len(lines) :
                /\ IncludesWord(ToLowerCase(lines[i]), S_true)
                /\ Includes(lines[i], "*")]

TFDataOfLines(lines) ==
    IF Len(lines) < 1 THEN NoRecord
    ELSE TFData(extractQTIPrefix(lines[1]), lines)

parseTFData(text) == TFDataOfLines(TrimmedLines(stripQTIMetadata(text)))

FIBData(question, answers) ==
    IF question = <<>> THEN NoRecord
    ELSE IF Len(answers) = 0 THEN NoRecord
    ELSE [Record("FIB", question) EXCEPT !.answers = answers]

FIBDataOfLines(rawLines) ==
    IF Len(rawLines) < 2 THEN NoRecord
    ELSE FIBData(extractQTIPrefix(stripQTIMetadata(rawLines[1])),
                 FilterNonEmpty([i \in 1..(Len(rawLines) - 1) |->
                                   stripQTIMetadata(rawLines[i + 1])]))

parseFIBData(text) == FIBDataOfLines(TrimmedLines(text))

\* const data = parseMCQData(text); if (data) data.type = 'MA'
MAData(data) == IF data.ok THEN [data EXCEPT !.type = "MA"] ELSE data

parseMAData(text) == MAData(parseMCQData(text))

MatchingData(question, pairs) ==
    IF question = <<>> THEN NoRecord
    ELSE IF Len(pairs) = 0 THEN NoRecord
    ELSE [Record("MATCH", question) EXCEPT !.pairs = pairs,
                                           !.id = generateUUID(Len(pairs) + 1)]

MatchingDataOfLines(lines) ==
    IF Len(lines) < 2 THEN NoRecord
    ELSE MatchingData(extractQTIPrefix(lines[1]), PairsOf(lines, 2))

parseMatchingData(text) == MatchingDataOfLines(TrimmedLines(stripQTIMetadata(text)))

NumericData(question, rawLines) ==
    IF question = <<>> THEN NoRecord
    ELSE [Record("NUMERIC", question) EXCEPT
            !.answer = stripQTIMetadata(rawLines[2]),
            !.hasTolerance = Len(rawLines) > 2,
            !.tolerance = IF Len(rawLines) > 2 THEN stripQTIMetadata(rawLines[3])
                          ELSE <<>>]

NumericDataOfLines(rawLines) ==
    IF Len(rawLines) < 2 THEN NoRecord
    ELSE NumericData(extractQTIPrefix(stripQTIMetadata(rawLines[1])), rawLines)

parseNumericData(text) == NumericDataOfLines(TrimmedLines(text))

----------------------------------------------------------------------------
(* The item generators of the archive                                      *)

\* str.replace(/c/g, rep) for a pattern of one character
ReplaceChar(str, c, rep) ==
    Flatten([i \in 1..Len(str) |-> IF str[i] = c THEN rep ELSE <<str[i]>>])

E_amp  == <<"&", "a", "m", "p", ";">>
E_lt   == <<"&", "l", "t", ";">>
E_gt   == <<"&", "g", "t", ";">>
E_quot == <<"&", "q", "u", "o", "t", ";">>
E_apos == <<"&", "a", "p", "o", "s", ";">>

escapeXML(str) ==
    IF str = <<>> THEN <<>>
    ELSE ReplaceChar(ReplaceChar(ReplaceChar(ReplaceChar(ReplaceChar(
            str, "&", E_amp), "<", E_lt), ">", E_gt), "\"", E_quot), "'", E_apos)

\* A generated document is held as the texts its template interpolates, in
\* the order of the document, each with the element or attribute it stands
\* in; of the generated identifiers those of the choices are kept.
Element(tag, text) == [tag |-> tag, text |-> text]

\* data.choices.filter(c => c.isCorrect).map(c => c.id)
RECURSIVE correctIds(_)
correctIds(choices) ==
    IF choices = <<>> THEN <<>>
    ELSE (IF Head(choices).isCorrect THEN <<Head(choices).id>> ELSE <<>>)
         \o correctIds(Tail(choices))

\* maxChoices with the two values the wrong way round
maxChoicesSwapped(data) == IF data.type = "MA" THEN 1 ELSE 0

\* data.type === 'MA' ? 0 : 1
maxChoices(data) == IF data.type = "MA" THEN 0 ELSE 1

\* correctXML, one <value> per correct identifier; the question; the
\* maxChoices attribute; choicesXML, per choice the identifier attribute of
\* its <simpleChoice> and its text
generateMCQXML(data) ==
    [i \in 1..Len(correctIds(data.choices)) |->
        Element("value", correctIds(data.choices)[i])]
    \o <<Element("div", escapeXML(data.question)),
          Element("maxChoices", <<ToString(maxChoices(data))>>)>>
    \o Flatten([i \in 1..Len(data.choices) |->
                  <<Element("identifier", data.choices[i].id),
                    Element("simpleChoice", escapeXML(data.choices[i].text))>>])

generateTFXML(data) ==
    <<Element("value", IF data.correctAnswer
                       THEN <<"c","h","o","i","c","e","-","t","r","u","e">>
                       ELSE <<"c","h","o","i","c","e","-","f","a","l","s","e">>),
      Element("div", escapeXML(data.question))>>

generateEssayXML(data) == <<Element("div", escapeXML(data.question))>>

generateFIBXML(data) ==
    [i \in 1..Len(data.answers) |-> Element("value", escapeXML(data.answers[i]))]
    \o <<Element("div", escapeXML(data.question))>>

generateMatchingXML(data) ==
    <<Element("div", escapeXML(data.question))>>
    \o [i \in 1..Len(data.pairs) |-> Element("p", escapeXML(data.pairs[i][1]))]
    \o [i \in 1..Len(data.pairs) |-> Element("p", escapeXML(data.pairs[i][2]))]

generateNumericXML(data) ==
    <<Element("value", data.answer), Element("div", escapeXML(data.question))>>

\* the generator downloadQTI hands to processTextArea for a kind
Generator(kind, data) ==
    CASE kind = "mcq"   -> generateMCQXML(data)
      [] kind = "essay" -> generateEssayXML(data)
      [] kind = "tf"    -> generateTFXML(data)
      [] kind = "fib"   -> generateFIBXML(data)
      [] kind = "ma"    -> generateMCQXML(data)
      [] kind = "mat"   -> generateMatchingXML(data)
      [] kind = "num"   -> generateNumericXML(data)

---------------------------------------------------------------------------
(* convertQuestions                                                        *)

MAX_BATCH_SIZE == 250

\* the kinds, in the order convertQuestions and downloadQTI process them
KindOrder == <<"mcq", "essay", "tf", "fib", "ma", "mat", "num">>
Kinds == {KindOrder[i] : i \in 1..Len(KindOrder)}

\* the label convertQuestions gives a kind in an error reason
ErrorLabel(kind) ==
    CASE kind = "mcq"   -> "MCQ"
      [] kind = "essay" -> "Essay"
      [] kind = "tf"    -> "True/False"
      [] kind = "fib"   -> "Fill in the Blank"
      [] kind = "ma"    -> "Multiple Answer"
      [] kind = "mat"   -> "Matching"
      [] kind = "num"   -> "Numeric Response"

\* the parser convertQuestions calls on a block of a kind (the MCQ loop
\* trims the block first)
TabParser(kind, block) ==
    CASE kind = "mcq"   -> parseMCQ(Trim(block))
      [] kind = "essay" -> parseEssay(block)
      [] kind = "tf"    -> parseTrueFalse(block)
      [] kind = "fib"   -> parseFillInBlank(block)
      [] kind = "ma"    -> parseMultipleAnswer(block)
      [] kind = "mat"   -> parseMatching(block)
      [] kind = "num"   -> parseNumericResponse(block)

\* the parser downloadQTI hands to processTextArea for a kind
QtiParser(kind, block) ==
    CASE kind = "mcq"   -> parseMCQData(block)
      [] kind = "essay" -> parseEssayData(block)
      [] kind = "tf"    -> parseTFData(block)
      [] kind = "fib"   -> parseFIBData(block)
      [] kind = "ma"    -> parseMAData(block)
      [] kind = "mat"   -> parseMatchingData(block)
      [] kind = "num"   -> parseNumericData(block)

\* Array.prototype.filter(block => block.trim() !== '')
RECURSIVE FilterNonBlank(_)
FilterNonBlank(xs) ==
    IF xs = <<>> THEN <<>>
    ELSE IF Trim(Head(xs)) # <<>> THEN <<Head(xs)>> \o FilterNonBlank(Tail(xs))
    ELSE FilterNonBlank(Tail(xs))

\* a split that drops the blank lines before it cuts the text
SplitBlocksOfNonBlankLines(kind, text) ==
    LET kept == Join(FilterNonBlank(Split(text, "\n")), <<"\n">>) IN
    FilterNonBlank(SplitAt(kept,
        {j \in 1..Len(kept) :
            /\ kept[j] = "\n"
            /\ \/ MatchesAt(NUMBERED, kept, j + 1)
               \/ kind = "essay" /\ MatchesAt(LETTERED, kept, j + 1)}))

\* text.split(/\n(?=\d+\.\s+)/), and for the essay buffer
\* text.split(/\n(?=\d+\.\s+|[a-z\u0600-\u06FF]\)\s+)/i), then the filter
SplitBlocks(kind, text) ==
    FilterNonBlank(SplitAt(text,
        {j \in 1..Len(text) :
            /\ text[j] = "\n"
            /\ \/ MatchesAt(NUMBERED, text, j + 1)
               \/ kind = "essay" /\ MatchesAt(LETTERED, text, j + 1)}))

\* the blocks convertQuestions loops over; for the MCQ buffer a split that
\* leaves nothing falls back to the whole text
BlocksOfBuffer(kind, text) ==
    LET blocks == SplitBlocks(kind, text) IN
    IF kind = "mcq" /\ Len(blocks) = 0 /\ Trim(text) # <<>> THEN <<Trim(text)>>
    ELSE blocks

\* the blocks processTextArea loops over: the same split, the fallback for
\* every buffer but the essay one
QtiBlocksOfBuffer(kind, text) ==
    LET blocks == SplitBlocks(kind, text) IN
    IF kind # "essay" /\ Len(blocks) = 0 /\ Trim(text) # <<>> THEN <<text>>
    ELSE blocks

\* the converted rows of a kind, in block order
RECURSIVE RowsOf(_, _)
RowsOf(results, i) ==
    IF i > Len(results) THEN <<>>
    ELSE IF results[i].ok THEN <<results[i].row>> \o RowsOf(results, i + 1)
    ELSE RowsOf(results, i + 1)

\* errors.push(`${label} Question ${index + 1}: ${error.message}`)
RECURSIVE ErrorsOf(_, _, _)
ErrorsOf(kind, results, i) ==
    IF i > Len(results) THEN <<>>
    ELSE IF results[i].ok THEN ErrorsOf(kind, results, i + 1)
    ELSE <<[label |-> ErrorLabel(kind), index |-> i, msg |-> results[i].msg]>>
         \o ErrorsOf(kind, results, i + 1)

\* the try/catch around each block: a row or an error reason per block
ParseBlocks(kind, blocks) == [i \in 1..Len(blocks) |-> TabParser(kind, blocks[i])]

SectionOutcome(kind, results) ==
    IF Evaluated(results)
    THEN [rows |-> RowsOf(results, 1), errs |-> ErrorsOf(kind, results, 1)]
    ELSE [rows |-> <<>>, errs |-> <<>>]

\* one "Process <kind>" section: the rows and the error reasons of the buffer
ConvertKind(kind, text) ==
    IF Trim(text) = <<>> THEN [rows |-> <<>>, errs |-> <<>>]
    ELSE SectionOutcome(kind, ParseBlocks(kind, BlocksOfBuffer(kind, text)))

\* the rows of a section appended with no line break before them
AppendRowsUnseparated(convertedText, rows) ==
    IF Len(rows) = 0 THEN convertedText
    ELSE convertedText \o Join(rows, NL)

\* convertedText += (convertedText ? '\n' : '') + rows.join('\n')
AppendRows(convertedText, rows) ==
    IF Len(rows) = 0 THEN convertedText
    ELSE IF convertedText = <<>> THEN Join(rows, NL)
    ELSE convertedText \o NL \o Join(rows, NL)

validateTabDelimited(text) ==
    LET lines == FilterNonBlank(Split(text, "\n")) IN
    \A i \in 1..Len(lines) : Len(Split(lines[i], "\t")) >= 2

FormatWarning == [label |-> "Warning", index |-> 0,
                  msg |-> "Output format validation failed. Please review the converted questions."]
BatchWarning  == [label |-> "Warning", index |-> 0,
                  msg |-> "Batch size exceeds recommended maximum. Consider splitting into smaller batches."]

\* Finish with the batch-size warning already at the limit
FinishWarningAtLimit(r) ==
    [output |-> Trim(r.convertedText),
     errors |-> r.errors
                \o (IF r.convertedText # <<>> /\ ~validateTabDelimited(r.convertedText)
                    THEN <<FormatWarning>> ELSE <<>>)
                \o (IF r.total >= MAX_BATCH_SIZE THEN <<BatchWarning>> ELSE <<>>),
     total  |-> r.total]

\* the seven sections of convertQuestions from section k on
RECURSIVE ConvertFrom(_, _, _, _, _)

\* AfterSection with the count raised for every block, failed or not
AfterSectionCountingAll(sections, k, convertedText, errs, total, r) ==
    ConvertFrom(sections, k + 1, AppendRows(convertedText, r.rows),
                errs \o r.errs, total + Len(r.rows) + Len(r.errs))

\* the bookkeeping after a section: rows appended, errors collected, the
\* count raised by the number of rows
AfterSection(sections, k, convertedText, errs, total, r) ==
    ConvertFrom(sections, k + 1, AppendRows(convertedText, r.rows),
                errs \o r.errs, total + Len(r.rows))

ConvertFrom(sections, k, convertedText, errs, total) ==
    IF Evaluated(<<sections, convertedText, errs, total>>) /\ k > Len(sections)
    THEN [convertedText |-> convertedText, errors |-> errs, total |-> total]
    ELSE AfterSection(sections, k, convertedText, errs, total, sections[k])

\* the outcomes of the seven sections, in the order of the code
Sections(buffers) ==
    [k \in 1..Len(KindOrder) |-> ConvertKind(KindOrder[k], buffers[KindOrder[k]])]

\* the end of convertQuestions: the two warnings, and the trimmed output
Finish(r) ==
    [output |-> Trim(r.convertedText),
     errors |-> r.errors
                \o (IF r.convertedText # <<>> /\ ~validateTabDelimited(r.convertedText)
                    THEN <<FormatWarning>> ELSE <<>>)
                \o (IF r.total > MAX_BATCH_SIZE THEN <<BatchWarning>> ELSE <<>>),
     total  |-> r.total]

\* what convertQuestions leaves: the output buffer, the errors, the count
\* the sections of buffers already split into blocks
SectionsOfBlocks(blocks) ==
    [k \in 1..Len(KindOrder) |->
        SectionOutcome(KindOrder[k], ParseBlocks(KindOrder[k], blocks[KindOrder[k]]))]

convertQuestions(buffers) == Finish(ConvertFrom(Sections(buffers), 1, <<>>, <<>>, 0))

---------------------------------------------------------------------------
(* downloadQTI                                                             *)

\* the number of identifiers the parser drew for a record: one per choice
\* or pair, and the record's own
IdsOf(data) == Len(data.choices) + Len(data.pairs) + 1

\* the record of a parser called when the run has drawn `drawn` identifiers
\* already: its identifiers are the next draws
WithDrawsFrom(data, drawn) ==
    IF ~data.ok THEN data
    ELSE [data EXCEPT
            !.id = generateUUID(drawn + IdsOf(data)),
            !.choices = [j \in 1..Len(data.choices) |->
                            [data.choices[j] EXCEPT !.id = generateUUID(drawn + j)]]]

\* zip.file(path, content): a file of the same path is replaced
ZipFile(files, path, content) ==
    IF \E j \in 1..Len(files) : files[j].path = path
    THEN [j \in 1..Len(files) |->
            IF files[j].path = path THEN [path |-> path, content |-> content]
            ELSE files[j]]
    ELSE Append(files, [path |-> path, content |-> content])

\* ItemFilename without the identifier
ItemFilenameFixed(id) == <<"item_", ".xml">>

\* `item_${data.id}.xml` and `qti21/${filename}`
ItemFilename(id) == <<"item_">> \o id \o <<".xml">>
InFolder(filename) == <<"qti21/">> \o filename

\* the locals of downloadQTI before the first buffer is processed
NoArchive == [zip |-> <<>>, items |-> <<>>, hasQuestions |-> FALSE, drawn |-> 0]

\* the body of blocks.forEach in processTextArea
ProcessedBlock(d, kind, data) ==
    IF ~data.ok THEN d
    ELSE [zip   |-> ZipFile(d.zip, InFolder(ItemFilename(data.id)), Generator(kind, data)),
          items |-> Append(d.items, [id |-> data.id, filename |-> ItemFilename(data.id)]),
          hasQuestions |-> TRUE,
          drawn |-> d.drawn + IdsOf(data)]

RECURSIVE ProcessBlocksFrom(_, _, _, _)
ProcessBlocksFrom(d, kind, blocks, i) ==
    IF i > Len(blocks) THEN d
    ELSE IF Evaluated(d)
    THEN ProcessBlocksFrom(
             ProcessedBlock(d, kind, WithDrawsFrom(QtiParser(kind, blocks[i]), d.drawn)),
             kind, blocks, i + 1)
    ELSE d

\* processTextArea(id, parser, generator)
processTextArea(d, kind, text) ==
    IF Trim(text) = <<>> THEN d
    ELSE ProcessBlocksFrom(d, kind, QtiBlocksOfBuffer(kind, text), 1)

\* the seven calls of processTextArea, from the k-th on
RECURSIVE ProcessAllFrom(_, _, _)
ProcessAllFrom(d, buffers, k) ==
    IF k > Len(KindOrder) THEN d
    ELSE ProcessAllFrom(processTextArea(d, KindOrder[k], buffers[KindOrder[k]]),
                        buffers, k + 1)

\* the aggregate test document: its identifier and its item references
generateAssessmentTestXML(its, testId) ==
    [identifier |-> testId,
     itemRefs |-> [i \in 1..Len(its) |->
                     [identifier |-> its[i].id, href |-> its[i].filename]]]

\* generateManifestWithTest with the test's href as the file name was
\* passed, without the folder
generateManifestBareHref(its, testId, testFilename, manifestId) ==
    [identifier |-> <<"manifest-">> \o manifestId,
     resources |->
        <<[identifier |-> <<"resource-">> \o testId, type |-> "imsqti_test_xmlv2p1",
           href |-> testFilename, file |-> testFilename,
           dependencies |-> [i \in 1..Len(its) |-> its[i].id]]>>
        \o [i \in 1..Len(its) |->
              [identifier |-> its[i].id, type |-> "imsqti_item_xmlv2p1",
               href |-> InFolder(its[i].filename), file |-> InFolder(its[i].filename),
               dependencies |-> <<>>]]]

\* the manifest: the resource of the test with its dependencies, then one
\* resource per item; manifestId is the identifier the function draws
generateManifestWithTest(its, testId, testFilename, manifestId) ==
    [identifier |-> <<"manifest-">> \o manifestId,
     resources |->
        <<[identifier |-> <<"resource-">> \o testId, type |-> "imsqti_test_xmlv2p1",
           href |-> InFolder(testFilename), file |-> InFolder(testFilename),
           dependencies |-> [i \in 1..Len(its) |-> its[i].id]]>>
        \o [i \in 1..Len(its) |->
              [identifier |-> its[i].id, type |-> "imsqti_item_xmlv2p1",
               href |-> InFolder(its[i].filename), file |-> InFolder(its[i].filename),
               dependencies |-> <<>>]]]

\* `question_bank_${testId}.xml`
TestFilename(testId) == <<"question_bank_">> \o testId \o <<".xml">>

\* the name under which downloadQTI stores the manifest
ManifestPath == <<"imsmanifest.xml">>

\* the archive after the test document and the manifest are added
WithTestAndManifest(d, testId, manifestId) ==
    ZipFile(ZipFile(d.zip, InFolder(TestFilename(testId)),
                    generateAssessmentTestXML(d.items, testId)),
            ManifestPath,
            generateManifestWithTest(d.items, testId, TestFilename(testId), manifestId))

\* showNotification(message, type) and alert(message)
Notification(text, type) == [text |-> text, type |-> type]

---------------------------------------------------------------------------
(* Inputs                                                                  *)

MaxAnswerLines == 2     \* lines after the question line of a generated block
MaxPieces      == 2     \* pieces of a generated normalizer input
MaxNest        == 5     \* depth of the nested metadata groups

\* '1. Q? (LO1)'
QL_Tagged ==
    <<"1","."," ","Q","?"," ","(","L","O","1",")">>

\* '2. Is 2*3 odd?'
QL_Star ==
    <<"2","."," ","I","s"," ","2","*","3"," ","o","d","d","?">>

\* '(LO1)'
QL_OnlyTag ==
    <<"(","L","O","1",")">>

\* '1. (CLO2)'
QL_OnlyMarker ==
    <<"1","."," ","(","C","L","O","2",")">>

\* 'a. X'
CL_Plain ==
    <<"a","."," ","X">>

\* 'b. Y*'
CL_Marked ==
    <<"b","."," ","Y","*">>

\* 'Paris*'
CL_NoMarker ==
    <<"P","a","r","i","s","*">>

\* '*'
CL_OnlyStar ==
    <<"*">>

\* 'c) Z (LO2)'
CL_Tagged ==
    <<"c",")"," ","Z"," ","(","L","O","2",")">>

\* 'True*'
TL_TrueMarked ==
    <<"T","r","u","e","*">>

\* 'False*'
TL_FalseMarked ==
    <<"F","a","l","s","e","*">>

\* 'True'
TL_True ==
    <<"T","r","u","e">>

\* 'False'
TL_False ==
    <<"F","a","l","s","e">>

\* 'Jupiter'
FL_Answer ==
    <<"J","u","p","i","t","e","r">>

\* '(LO1)'
FL_OnlyTag ==
    <<"(","L","O","1",")">>

\* 'b) Io*'
FL_Marked ==
    <<"b",")"," ","I","o","*">>

\* 'Mars [Module 2]'
FL_Tagged ==
    <<"M","a","r","s"," ","[","M","o","d","u","l","e"," ","2","]">>

\* 'A 1'
ML_Pair ==
    <<"A"," ","1">>

\* 'B  2 3'
ML_Long ==
    <<"B"," "," ","2"," ","3">>

\* 'C'
ML_Single ==
    <<"C">>

\* '4'
NL_Answer ==
    <<"4">>

\* '0.1'
NL_Tolerance ==
    <<"0",".","1">>

\* '(LO1)'
NL_OnlyTag ==
    <<"(","L","O","1",")">>

\* 'in full'
EL_More ==
    <<"i","n"," ","f","u","l","l">>

\* 'a) How?'
EL_Lettered ==
    <<"a",")"," ","H","o","w","?">>

\* '1. Capital of France? (LO1)\na. London\nb. Paris*\nc. Berlin'
EX_MCQ ==
    <<"1","."," ","C","a","p","i","t","a","l"," ","o","f"," ","F","r","a",
      "n","c","e","?"," ","(","L","O","1",")","\n","a","."," ","L","o","n",
      "d","o","n","\n","b","."," ","P","a","r","i","s","*","\n","c","."," ",
      "B","e","r","l","i","n">>

\* '1. Earth is round.\nTrue*\nFalse'
EX_TF ==
    <<"1","."," ","E","a","r","t","h"," ","i","s"," ","r","o","u","n","d",
      ".","\n","T","r","u","e","*","\n","F","a","l","s","e">>

\* '1. Largest planet?\nJupiter'
EX_FIB ==
    <<"1","."," ","L","a","r","g","e","s","t"," ","p","l","a","n","e","t",
      "?","\n","J","u","p","i","t","e","r">>

\* '1. Match\nA 1\nC\nB 2 3'
EX_MAT ==
    <<"1","."," ","M","a","t","c","h","\n","A"," ","1","\n","C","\n","B",
      " ","2"," ","3">>

\* '1. 2+2?\n4\n0.1'
EX_NUM ==
    <<"1","."," ","2","+","2","?","\n","4","\n","0",".","1">>

\* 'Q '
NP_Text ==
    <<"Q"," ">>

\* '(LO1)'
NP_Outcome ==
    <<"(","L","O","1",")">>

\* '[Module 1]'
NP_Module ==
    <<"[","M","o","d","u","l","e"," ","1","]">>

\* '(slow)'
NP_Words ==
    <<"(","s","l","o","w",")">>

\* '(Dr. A)'
NP_Author ==
    <<"(","D","r","."," ","A",")">>

\* ' x  y '
NP_Spaces ==
    <<" ","x"," "," ","y"," ">>

\* '[Difficulty Leve: Low]'
NP_Difficulty ==
    <<"[","D","i","f","f","i","c","u","l","t","y"," ","L","e","v","e",":",
      " ","L","o","w","]">>

\* '(see p. 3)'
NP_Page ==
    <<"(","s","e","e"," ","p","."," ","3",")">>

\* '[note]'
NP_Note ==
    <<"[","n","o","t","e","]">>

\* '1. Q? (LO1)\na. X\nb. Y*\n2. R?\na. X\n3. S?\nb. Y*'
BUF_MCQ_Mixed ==
    <<"1","."," ","Q","?"," ","(","L","O","1",")","\n","a","."," ","X","\n",
      "b","."," ","Y","*","\n","2","."," ","R","?","\n","a","."," ","X",
      "\n","3","."," ","S","?","\n","b","."," ","Y","*">>

\* '1. Q?\n2. R?\nb. Y*'
BUF_MCQ_NoChoice ==
    <<"1","."," ","Q","?","\n","2","."," ","R","?","\n","b","."," ","Y","*">>

\* '1. Why? (LO1)\na) How?\n'
BUF_ESS_Two ==
    <<"1","."," ","W","h","y","?"," ","(","L","O","1",")","\n","a",")"," ",
      "H","o","w","?","\n">>

\* '(LO1)\n2. What?'
BUF_ESS_Empty ==
    <<"(","L","O","1",")","\n","2","."," ","W","h","a","t","?">>

\* '1. Sky?\nTrue*\nFalse'
BUF_TF ==
    <<"1","."," ","S","k","y","?","\n","T","r","u","e","*","\n","F","a","l",
      "s","e">>

\* '1. Big?\nJupiter\n2. Small?'
BUF_FIB ==
    <<"1","."," ","B","i","g","?","\n","J","u","p","i","t","e","r","\n","2",
      "."," ","S","m","a","l","l","?">>

\* '1. Far?\nIo<TAB>Europa', a tab inside the answer
BUF_FIB_Tab ==
    <<"1","."," ","F","a","r","?","\n","I","o","\t","E","u","r","o","p","a">>

\* '1. Q?\na. X*\nb. Y*\n2. R?\na. X'
BUF_MA ==
    <<"1","."," ","Q","?","\n","a","."," ","X","*","\n","b","."," ","Y","*",
      "\n","2","."," ","R","?","\n","a","."," ","X">>

\* '1. Match\nA 1\nB 2'
BUF_MAT ==
    <<"1","."," ","M","a","t","c","h","\n","A"," ","1","\n","B"," ","2">>

\* '1. 2+2?\n4\n0.1\n2. 3?'
BUF_NUM ==
    <<"1","."," ","2","+","2","?","\n","4","\n","0",".","1","\n","2",".",
      " ","3","?">>

\* '(Dr. A asks\nTrue\nFalse)'
EX_TF_Open ==
    <<"(","D","r","."," ","A"," ","a","s","k","s","\n","T","r","u","e","\n","F","a","l","s","e",")">>

\* '(LO1)\na. X*\n2. Q?\n(LO2)'
BUF_MA_NoText ==
    <<"(","L","O","1",")","\n","a","."," ","X","*","\n","2","."," ","Q","?","\n","(","L","O","2",")">>

QuestionLines == {QL_Tagged, QL_Star, QL_OnlyTag, QL_OnlyMarker}

AnswerLines(kind) ==
    CASE kind = "mcq"   -> {CL_Plain, CL_Marked, CL_NoMarker, CL_OnlyStar, CL_Tagged}
      [] kind = "ma"    -> {CL_Plain, CL_Marked, CL_Tagged}
      [] kind = "essay" -> {EL_More, EL_Lettered}
      [] kind = "tf"    -> {TL_TrueMarked, TL_FalseMarked, TL_True, TL_False}
      [] kind = "fib"   -> {FL_Answer, FL_OnlyTag, FL_Tagged, FL_Marked}
      [] kind = "mat"   -> {ML_Pair, ML_Long, ML_Single}
      [] kind = "num"   -> {NL_Answer, NL_Tolerance, NL_OnlyTag}

Examples(kind) ==
    CASE kind = "mcq" -> {EX_MCQ}
      [] kind = "tf"  -> {EX_TF, EX_TF_Open}
      [] kind = "fib" -> {EX_FIB}
      [] kind = "mat" -> {EX_MAT}
      [] kind = "num" -> {EX_NUM}
      [] OTHER        -> {}

\* the texts of exactly n lines from a pool, each line preceded by a newline
RECURSIVE Tails(_, _)
Tails(pool, n) ==
    IF n = 0 THEN {<<>>}
    ELSE {t \o NL \o a : t \in Tails(pool, n - 1), a \in pool}

\* the blocks of a kind a parser run draws from
BlocksOf(kind) ==
    {q \o t : q \in QuestionLines,
              t \in UNION {Tails(AnswerLines(kind), n) : n \in 0..MaxAnswerLines}}
    \cup Examples(kind)

\* metadata groups nested so that each pass of the pattern list frees the
\* next: NestB(k) is a bracket group, NestP(k) a parenthesis group around
\* NestB(k - 1)
RECURSIVE NestB(_)
RECURSIVE NestP(_)
NestB(k) == <<"[", ")">> \o (IF k = 0 THEN <<>> ELSE NestP(k)) \o Words.Level \o <<"]">>
NestP(k) == <<"(", "]">> \o NestB(k - 1) \o Words.LO \o <<")">>

Pieces == {NP_Text, NP_Outcome, NP_Module, NP_Words, NP_Author, NP_Spaces,
           NP_Difficulty, NP_Page, NP_Note}

RECURSIVE PieceTexts(_)
PieceTexts(n) ==
    IF n = 0 THEN {<<>>}
    ELSE PieceTexts(n - 1) \cup {t \o a : t \in PieceTexts(n - 1), a \in Pieces}

\* the strings a normalizer run draws from
NormInputs == PieceTexts(MaxPieces) \cup {NestP(k) : k \in 1..MaxNest}

\* the starts and the rests of the texts a prefix run draws from
PrefixLeads ==
    {<<>>, <<"1", ".", " ">>, <<"1", "2", ".", " ", " ">>, <<"1", ".", "\t">>,
     <<"1", ".">>, <<"1", ")", " ">>, <<" ", "1", ".", " ">>,
     <<"a", ")", " ">>, <<"B", ")", " ", " ">>, <<"a", ")">>, <<"a", ".", " ">>,
     <<"a", "b", ")", " ">>, <<"U0628", ")", " ">>, <<"U0661", ")", " ">>,
     <<"*", ")", " ">>}
PrefixRests ==
    {<<>>, <<"X">>, <<"X", " ", " ">>, <<"a", ")", " ", "X">>,
     <<"2", ".", " ", "X">>, <<"(", "L", "O", "1", ")">>}
PrefixInputs == {l \o r : l \in PrefixLeads, r \in PrefixRests}

\* the lines of the buffers a split run draws from, and the buffers
MaxSplitLines == 3
SplitLines ==
    {<<>>, <<"X">>, <<"1", "2", ".", " ", "Q">>, <<"2", ".", "Q">>,
     <<"a", ")", "\t", "x">>, <<"U0661", ")", " ", "y">>, <<"4", ".">>}
RECURSIVE LinesUpTo(_)
LinesUpTo(n) ==
    IF n = 0 THEN {<<>>}
    ELSE LinesUpTo(n - 1) \cup
         {ls \o <<l>> : ls \in {p \in LinesUpTo(n - 1) : Len(p) = n - 1}, l \in SplitLines}
SplitInputs == {Join(ls, NL) : ls \in LinesUpTo(MaxSplitLines)}

\* the buffers of a batch run: n blocks that parse, then f blocks that do
\* not, in the essay, the true/false and the numeric buffer
MaxSmallBatch == 2
NoBlocks == [kind \in Kinds |-> <<>>]
BatchBlocks(kind, n, f) ==
    [i \in 1..(n + f) |->
        IF i > n THEN QL_OnlyTag
        ELSE CASE kind = "essay" -> EL_Lettered
               [] kind = "tf"    -> BUF_TF
               [] OTHER          -> EX_NUM]
Batch(en, ef, tn, tf, nn, nf) ==
    [NoBlocks EXCEPT !["essay"] = BatchBlocks("essay", en, ef),
                  !["tf"]    = BatchBlocks("tf", tn, tf),
                  !["num"]   = BatchBlocks("num", nn, nf)]
SmallBatches ==
    {Batch(en, ef, tn, tf, nn, nf) :
        en \in 0..MaxSmallBatch, ef \in 0..1, tn \in 0..MaxSmallBatch,
        tf \in 0..1, nn \in 0..MaxSmallBatch, nf \in 0..1}
LargeBatches ==
    {Batch(0, 1, MAX_BATCH_SIZE, 1, 0, 0),
     Batch(0, 0, MAX_BATCH_SIZE + 1, 0, 0, 0),
     Batch(125, 0, 0, 0, 126, 1)}
BatchInputs == SmallBatches \cup LargeBatches

\* the blocks of an export run: a question line and answer lines, with the
\* characters XML reserves among them
ExportQuestions ==
    {<<"1", ".", " ", "Q", "?">>,
     <<"1", ".", " ", "A", "<", "B", " ", "&", " ", "C", ">", "D", "?">>,
     <<"1", ".", " ", "\"", "x", "\"", " ", "o", "r", " ", "'", "y", "'">>,
     <<"1", ".", " ", "R", "&", "a", "m", "p", ";", "D">>}
ExportAnswers(kind) ==
    CASE kind \in {"mcq", "ma"} ->
            {<<"a", ")", " ", "<", "b", ">", "*">>,
             <<"a", ")", " ", "R", "&", "D", "*", "\n", "b", ")", " ", "'", "n", "'">>,
             <<"a", ")", " ", "x", "*", "\n", "b", ")", " ", "\"", "y", "\"", "*">>}
      [] kind = "essay" -> {<<>>, <<"<", "i", ">">>}
      [] kind = "tf"    -> {<<"T", "r", "u", "e", "*">>, <<"F", "a", "l", "s", "e", "*">>}
      [] kind = "fib"   ->
            {<<"i", "t", "'", "s">>, <<"<", "5", "\n", ">", "4">>, <<"R", "&", "D">>}
      [] kind = "mat"   ->
            {<<"A", "&", "B", " ", "<", "1", ">">>,
             <<"'", "a", "'", " ", "\"", "b", "\"", "\n", "x", " ", "y">>}
      [] kind = "num"   ->
            {<<"4">>, <<"<", "5">>, <<"4", "\n", "0", ".", "1">>,
             <<"1", "&", "2", "\n", ">", "0">>}
ExportBlocks(kind) ==
    {q \o (IF a = <<>> THEN <<>> ELSE NL \o a) :
        q \in ExportQuestions, a \in ExportAnswers(kind)}

\* the texts a user may put into the buffer of a kind
BufferTexts(kind) ==
    CASE kind = "mcq"   -> {BUF_MCQ_Mixed, BUF_MCQ_NoChoice}
      [] kind = "essay" -> {BUF_ESS_Two, BUF_ESS_Empty}
      [] kind = "tf"    -> {BUF_TF}
      [] kind = "fib"   -> {BUF_FIB, BUF_FIB_Tab}
      [] kind = "ma"    -> {BUF_MA, BUF_MA_NoText}
      [] kind = "mat"   -> {BUF_MAT}
      [] kind = "num"   -> {BUF_NUM}

\* the text of the buffer of a kind at a download, when it is not empty
DownloadText(kind) ==
    CASE kind = "mcq"   -> BUF_MCQ_Mixed
      [] kind = "essay" -> BUF_ESS_Two
      [] kind = "tf"    -> BUF_TF
      [] kind = "fib"   -> BUF_FIB
      [] kind = "ma"    -> BUF_MA_NoText
      [] kind = "mat"   -> BUF_MAT
      [] kind = "num"   -> BUF_NUM

\* the buffers at a download: each empty or filled
DownloadInputs ==
    {[kind \in Kinds |-> IF kind \in filled THEN DownloadText(kind) ELSE <<>>] :
        filled \in SUBSET Kinds}

---------------------------------------------------------------------------
(* The state machine                                                       *)

NotRun   == [ok |-> FALSE, row |-> <<>>, msg |-> "not run"]
NoOutput == [seu |-> <<>>, seuAgain |-> <<>>, qti |-> <<>>, qtiAgain |-> <<>>]
Empty    == [k \in Kinds |-> <<>>]

NormIdle    == nIn = <<>> /\ nOut = NoOutput /\ nPc = [seu |-> 0, qti |-> 0]
ParseIdle   == pKind = "mcq" /\ pBlock = <<>> /\ pTab = NotRun /\ pQti = NoRecord
               /\ pPc = "idle" /\ pXml = <<>>
ConvertIdle == texts = Empty /\ outputText = <<>> /\ errors = <<>>
               /\ totalQuestions = 0 /\ cPc = "idle"
NoPrefix    == [prefix |-> <<>>, cleaned |-> <<>>]
PrefixIdle  == xIn = <<>> /\ xOut = [seu |-> NoPrefix, qti |-> NoPrefix]
               /\ xPc = [seu |-> 0, qti |-> 0]
BatchIdle   == bBlocks = NoBlocks
DownloadIdle == zip = <<>> /\ items = <<>> /\ hasQuestions = FALSE
                /\ notified = <<>> /\ offered = <<>> /\ dPc = "idle"
SplitIdle   == sKind = "mcq" /\ sText = <<>> /\ sBlocks = [seu |-> <<>>, qti |-> <<>>]
               /\ sPc = [seu |-> 0, qti |-> 0]

normVars    == <<nIn, nOut, nPc>>
parseVars   == <<pKind, pBlock, pTab, pQti, pPc, pXml>>
convertVars == <<texts, outputText, errors, totalQuestions, cPc>>
prefixVars  == <<xIn, xOut, xPc>>
splitVars   == <<sKind, sText, sBlocks, sPc>>
batchVars   == <<bBlocks>>
downloadVars == <<zip, items, hasQuestions, notified, offered, dPc>>

(* A normalizer run: stripSEUMetadata and stripQTIMetadata applied to an   *)
(* input, and then to their own result.                                    *)
InitNorm ==
    /\ nIn \in NormInputs
    /\ nOut = NoOutput
    /\ nPc = [seu |-> 0, qti |-> 0]
    /\ ParseIdle /\ ConvertIdle /\ PrefixIdle /\ SplitIdle /\ BatchIdle /\ DownloadIdle

RunStripSEU ==
    /\ nPc.seu < 2
    /\ nOut' = IF nPc.seu = 0 THEN [nOut EXCEPT !.seu = stripSEUMetadata(nIn)]
                ELSE [nOut EXCEPT !.seuAgain = stripSEUMetadata(nOut.seu)]
    /\ nPc' = [nPc EXCEPT !.seu = @ + 1]
    /\ UNCHANGED <<nIn, parseVars, convertVars, prefixVars, splitVars, batchVars,
                   downloadVars>>

RunStripQTI ==
    /\ nPc.qti < 2
    /\ nOut' = IF nPc.qti = 0 THEN [nOut EXCEPT !.qti = stripQTIMetadata(nIn)]
                ELSE [nOut EXCEPT !.qtiAgain = stripQTIMetadata(nOut.qti)]
    /\ nPc' = [nPc EXCEPT !.qti = @ + 1]
    /\ UNCHANGED <<nIn, parseVars, convertVars, prefixVars, splitVars, batchVars,
                   downloadVars>>

NextNorm == RunStripSEU \/ RunStripQTI
SpecNorm == InitNorm /\ [][NextNorm]_vars

(* A parser run: one block of one kind handed to the parser of the         *)
(* tab-delimited path and then to the parser of the archive path.          *)
InitParse ==
    /\ pKind \in Kinds
    /\ pBlock \in BlocksOf(pKind)
    /\ pTab = NotRun
    /\ pQti = NoRecord
    /\ pPc = "input"
    /\ pXml = <<>>
    /\ NormIdle /\ ConvertIdle /\ PrefixIdle /\ SplitIdle /\ BatchIdle /\ DownloadIdle

RunTabParser ==
    /\ pPc = "input"
    /\ pTab' = TabParser(pKind, pBlock)
    /\ pPc' = "tab"
    /\ UNCHANGED <<pKind, pBlock, pQti, pXml, normVars, convertVars, prefixVars, splitVars, batchVars,
                   downloadVars>>

RunQtiParser ==
    /\ pPc = "tab"
    /\ pQti' = QtiParser(pKind, pBlock)
    /\ pPc' = "both"
    /\ UNCHANGED <<pKind, pBlock, pTab, pXml, normVars, convertVars, prefixVars, splitVars, batchVars,
                   downloadVars>>

NextParse == RunTabParser \/ RunQtiParser
SpecParse == InitParse /\ [][NextParse]_vars

(* An export run: the body of the loop of processTextArea on one block,    *)
(* the parser and then the item generator.                                 *)
InitExport ==
    /\ pKind \in Kinds
    /\ pBlock \in ExportBlocks(pKind)
    /\ pTab = NotRun
    /\ pQti = NoRecord
    /\ pPc = "input"
    /\ pXml = <<>>
    /\ NormIdle /\ ConvertIdle /\ PrefixIdle /\ SplitIdle /\ BatchIdle /\ DownloadIdle

Exported(data) ==
    /\ pQti' = data
    /\ pXml' = IF data.ok THEN Generator(pKind, data) ELSE <<>>

ProcessBlock ==
    /\ pPc = "input"
    /\ \E data \in {QtiParser(pKind, pBlock)} : Exported(data)
    /\ pPc' = "exported"
    /\ UNCHANGED <<pKind, pBlock, pTab, normVars, convertVars, prefixVars, splitVars, batchVars,
                   downloadVars>>

NextExport == ProcessBlock
SpecExport == InitExport /\ [][NextExport]_vars

(* A prefix run: extractQuestionPrefix and extractQTIPrefix applied to a    *)
(* text.                                                                   *)
InitPrefix ==
    /\ xIn \in PrefixInputs
    /\ xOut = [seu |-> NoPrefix, qti |-> NoPrefix]
    /\ xPc = [seu |-> 0, qti |-> 0]
    /\ NormIdle /\ ParseIdle /\ ConvertIdle /\ SplitIdle /\ BatchIdle /\ DownloadIdle

RunExtractQuestionPrefix ==
    /\ xPc.seu = 0
    /\ xOut' = [xOut EXCEPT !.seu = [prefix  |-> PrefixOfQuestion(xIn),
                                     cleaned |-> extractQuestionPrefix(xIn)]]
    /\ xPc' = [xPc EXCEPT !.seu = 1]
    /\ UNCHANGED <<xIn, normVars, parseVars, convertVars, splitVars, batchVars,
                   downloadVars>>

RunExtractQTIPrefix ==
    /\ xPc.qti = 0
    /\ xOut' = [xOut EXCEPT !.qti = [prefix  |-> PrefixOfQTI(xIn),
                                     cleaned |-> extractQTIPrefix(xIn)]]
    /\ xPc' = [xPc EXCEPT !.qti = 1]
    /\ UNCHANGED <<xIn, normVars, parseVars, convertVars, splitVars, batchVars,
                   downloadVars>>

NextPrefix == RunExtractQuestionPrefix \/ RunExtractQTIPrefix
SpecPrefix == InitPrefix /\ [][NextPrefix]_vars

(* A split run: the buffer of a kind cut into blocks by convertQuestions   *)
(* and by processTextArea.                                                 *)
InitSplit ==
    /\ sKind \in Kinds
    /\ sText \in SplitInputs
    /\ sBlocks = [seu |-> <<>>, qti |-> <<>>]
    /\ sPc = [seu |-> 0, qti |-> 0]
    /\ NormIdle /\ ParseIdle /\ ConvertIdle /\ PrefixIdle /\ BatchIdle /\ DownloadIdle

RunConvertSplit ==
    /\ sPc.seu = 0
    /\ sBlocks' = [sBlocks EXCEPT !.seu =
                      IF Trim(sText) = <<>> THEN <<>> ELSE BlocksOfBuffer(sKind, sText)]
    /\ sPc' = [sPc EXCEPT !.seu = 1]
    /\ UNCHANGED <<sKind, sText, normVars, parseVars, convertVars, prefixVars, batchVars,
                   downloadVars>>

RunProcessTextArea ==
    /\ sPc.qti = 0
    /\ sBlocks' = [sBlocks EXCEPT !.qti =
                      IF Trim(sText) = <<>> THEN <<>> ELSE QtiBlocksOfBuffer(sKind, sText)]
    /\ sPc' = [sPc EXCEPT !.qti = 1]
    /\ UNCHANGED <<sKind, sText, normVars, parseVars, convertVars, prefixVars, batchVars,
                   downloadVars>>

NextSplit == RunConvertSplit \/ RunProcessTextArea
SpecSplit == InitSplit /\ [][NextSplit]_vars

(* The page: the user fills buffers, converts, and clears.                 *)
Init ==
    /\ texts = Empty
    /\ outputText = <<>>
    /\ errors = <<>>
    /\ totalQuestions = 0
    /\ cPc = "edit"
    /\ NormIdle /\ ParseIdle /\ PrefixIdle /\ SplitIdle /\ BatchIdle /\ DownloadIdle

\* the user puts a text into an empty buffer
Edit(kind, text) ==
    /\ cPc = "edit"
    /\ texts[kind] = <<>>
    /\ texts' = [texts EXCEPT ![kind] = text]
    /\ UNCHANGED <<outputText, errors, totalQuestions, cPc, normVars, parseVars, prefixVars, splitVars, batchVars,
                   downloadVars>>

\* outputText.value = ..., showErrors(errors), updateQuestionCount(total)
Display(r) ==
    /\ outputText' = r.output
    /\ errors' = r.errors
    /\ totalQuestions' = r.total

ConvertQuestions ==
    /\ cPc = "edit"
    /\ \E r \in {convertQuestions(texts)} : Display(r)
    /\ cPc' = "converted"
    /\ UNCHANGED <<texts, normVars, parseVars, prefixVars, splitVars, batchVars,
                   downloadVars>>

ClearAll ==
    /\ cPc = "converted"
    /\ texts' = Empty
    /\ outputText' = <<>>
    /\ errors' = <<>>
    /\ totalQuestions' = 0
    /\ cPc' = "edit"
    /\ UNCHANGED <<normVars, parseVars, prefixVars, splitVars, batchVars,
                   downloadVars>>

Next ==
    \/ \E kind \in Kinds : \E text \in BufferTexts(kind) : Edit(kind, text)
    \/ ConvertQuestions
    \/ ClearAll

Spec == Init /\ [][Next]_vars

(* A batch run: convertQuestions from the point where the buffers are cut  *)
(* into blocks, on buffers of many blocks.                                 *)
InitBatch ==
    /\ bBlocks \in BatchInputs
    /\ texts = Empty /\ outputText = <<>> /\ errors = <<>>
    /\ totalQuestions = 0 /\ cPc = "edit"
    /\ NormIdle /\ ParseIdle /\ PrefixIdle /\ SplitIdle /\ DownloadIdle

ConvertBlocks ==
    /\ cPc = "edit"
    /\ \E r \in {Finish(ConvertFrom(SectionsOfBlocks(bBlocks), 1, <<>>, <<>>, 0))} :
          Display(r)
    /\ cPc' = "converted"
    /\ UNCHANGED <<texts, bBlocks, normVars, parseVars, prefixVars, splitVars,
                   downloadVars>>

NextBatch == ConvertBlocks
SpecBatch == InitBatch /\ [][NextBatch]_vars

(* A download run: the user has filled the buffers and clicks the export   *)
(* button; downloadQTI runs to its await, and the promise of               *)
(* zip.generateAsync is then resolved or rejected.                         *)
InitDownload ==
    /\ texts \in DownloadInputs
    /\ outputText = <<>> /\ errors = <<>> /\ totalQuestions = 0 /\ cPc = "idle"
    /\ zip = <<>> /\ items = <<>> /\ hasQuestions = FALSE
    /\ notified = <<>> /\ offered = <<>> /\ dPc = "ready"
    /\ NormIdle /\ ParseIdle /\ PrefixIdle /\ SplitIdle /\ BatchIdle

\* typeof JSZip === 'undefined': alert and return
DownloadWithoutLibrary ==
    /\ dPc = "ready"
    /\ notified' = Append(notified,
                     Notification("JSZip library not loaded. Please refresh the page.", "alert"))
    /\ dPc' = "done"
    /\ UNCHANGED <<zip, items, hasQuestions, offered>>
    /\ UNCHANGED <<normVars, parseVars, convertVars, prefixVars, splitVars, batchVars>>

\* Started without the test of hasQuestions
StartedAlways(d) ==
    /\ items' = d.items
    /\ hasQuestions' = d.hasQuestions
    /\ zip' = WithTestAndManifest(d, generateUUID(d.drawn + 1),
                                  generateUUID(d.drawn + 2))
    /\ notified' = notified
    /\ dPc' = "generating"

\* downloadQTI from the seven calls of processTextArea to the await
Started(d) ==
    /\ items' = d.items
    /\ hasQuestions' = d.hasQuestions
    /\ IF ~d.hasQuestions
       THEN /\ zip' = d.zip
            /\ notified' = Append(notified, Notification("No questions to export.", "error"))
            /\ dPc' = "done"
       ELSE /\ zip' = WithTestAndManifest(d, generateUUID(d.drawn + 1),
                                          generateUUID(d.drawn + 2))
            /\ notified' = notified
            /\ dPc' = "generating"

DownloadQTI ==
    /\ dPc = "ready"
    /\ \E d \in {ProcessAllFrom(NoArchive, texts, 1)} : Started(d)
    /\ UNCHANGED offered
    /\ UNCHANGED <<normVars, parseVars, convertVars, prefixVars, splitVars, batchVars>>

\* await zip.generateAsync(...) resolved: link.click() and the notification
GenerateResolved ==
    /\ dPc = "generating"
    /\ offered' = Append(offered, [download |-> "blackboard_qti_2_1_export.zip",
                                   files |-> zip])
    /\ notified' = Append(notified,
                     Notification("QTI 2.1 Package downloaded successfully!", "success"))
    /\ dPc' = "done"
    /\ UNCHANGED <<zip, items, hasQuestions>>
    /\ UNCHANGED <<normVars, parseVars, convertVars, prefixVars, splitVars, batchVars>>

\* await zip.generateAsync(...) rejected: the catch block
GenerateRejected ==
    /\ dPc = "generating"
    /\ notified' = Append(notified, Notification("Error generating ZIP file.", "error"))
    /\ dPc' = "done"
    /\ UNCHANGED <<zip, items, hasQuestions, offered>>
    /\ UNCHANGED <<normVars, parseVars, convertVars, prefixVars, splitVars, batchVars>>

NextDownload ==
    \/ DownloadWithoutLibrary
    \/ DownloadQTI
    \/ GenerateResolved
    \/ GenerateRejected

SpecDownload == InitDownload /\ [][NextDownload]_vars


---------------------------------------------------------------------------
(* Properties of the parsers (SpecParse)                                   *)

\* 'Capital of France?'
S_CapitalOfFrance ==
    <<"C","a","p","i","t","a","l"," ","o","f"," ","F","r","a","n","c","e",
      "?">>

\* 'London'
S_London ==
    <<"L","o","n","d","o","n">>

\* 'Paris'
S_Paris ==
    <<"P","a","r","i","s">>

\* 'Berlin'
S_Berlin ==
    <<"B","e","r","l","i","n">>

\* 'Earth is round.'
S_EarthIsRound ==
    <<"E","a","r","t","h"," ","i","s"," ","r","o","u","n","d",".">>

TabDone == pPc \in {"tab", "both"}
QtiDone == pPc = "both"

\* the non-blank lines of the block as entered, trimmed, nothing stripped
RawLines == TrimmedLines(pBlock)

Fields(row) == Split(row, "\t")

\* the question text the Normalizer and the prefix extractor leave of a line
QuestionTextOf(line) == extractQuestionPrefix(stripSEUMetadata(line))

HasQuestionText(lines) == Len(lines) >= 1 /\ QuestionTextOf(lines[1]) # <<>>

NotAsterisk(c) == c # "*"
DropChar(s, c) == IF s # <<>> /\ s[1] = c THEN Tail(s) ELSE s
DropSpaces(s) ==
    LET keep == {j \in 1..Len(s) : s[j] \notin Space} IN
    IF keep = {} THEN <<>> ELSE SubSeq(s, SetMin(keep), Len(s))

\* the choice text of a line as the per-kind rule states it: the metadata
\* stripped, one leading letter with an optional ")" or "." dropped, every
\* asterisk dropped
ChoiceTextOfStripped(s) ==
    Trim(SelectSeq(
        IF s # <<>> /\ ToLowerChar(s[1]) \in Letter
        THEN DropSpaces(DropChar(DropSpaces(DropChar(Tail(s), ")")), "."))
        ELSE s,
        NotAsterisk))
ChoiceTextOf(line) == ChoiceTextOfStripped(stripSEUMetadata(line))

\* the lines after the question line that hold a non-empty choice
ChoiceLines(lines) == {i \in 2..Len(lines) : ChoiceTextOf(lines[i]) # <<>>}
MarkedChoiceLines(lines) == {i \in ChoiceLines(lines) : Includes(lines[i], "*")}

ValidChoiceBlock(lines) ==
    /\ HasQuestionText(lines)
    /\ MarkedChoiceLines(lines) # {}

\* the choice fields the layout asks for, from line i on
RECURSIVE ExpectedChoiceFields(_, _)
ExpectedChoiceFields(lines, i) ==
    IF i > Len(lines) THEN <<>>
    ELSE IF i \in ChoiceLines(lines)
    THEN <<ChoiceTextOf(lines[i]),
           IF Includes(lines[i], "*") THEN S_correct ELSE S_incorrect>>
         \o ExpectedChoiceFields(lines, i + 1)
    ELSE ExpectedChoiceFields(lines, i + 1)

MarkedLines(lines) == {i \in 2..Len(lines) : Includes(lines[i], "*")}
NamesTrue(line)  == IncludesWord(ToLowerCase(line), S_true)
NamesFalse(line) == IncludesWord(ToLowerCase(line), S_false)
TheMarkedLine(lines) == lines[CHOOSE i \in MarkedLines(lines) : TRUE]

\* C2: for a true/false block with exactly one marked answer line the
\* answer field of the row of parseTrueFalse is 'true' when that line is
\* the True line and 'false' when it is the False line; the block of
\* scenario B gives TF, Earth is round., true.
C2_MarkedLineDecides ==
    (pKind = "tf" /\ TabDone) =>
        /\ (HasQuestionText(RawLines) /\ Cardinality(MarkedLines(RawLines)) = 1) =>
             /\ pTab.ok
             /\ NamesTrue(TheMarkedLine(RawLines)) =>
                  Fields(pTab.row)[Len(Fields(pTab.row))] = S_true
             /\ NamesFalse(TheMarkedLine(RawLines)) =>
                  Fields(pTab.row)[Len(Fields(pTab.row))] = S_false
        /\ pBlock = EX_TF =>
             Fields(pTab.row) = <<K_TF, S_EarthIsRound, S_true>>

MultiLineKinds == {"mcq", "ma", "tf", "fib", "mat", "num"}

\* C3: for every multi-line kind the question text of the result comes from
\* the first non-blank line of the block only: it is that line with its
\* metadata and its marker stripped, in the row and in the record.
C3_QuestionFromFirstLine ==
    pKind \in MultiLineKinds =>
        /\ (TabDone /\ pTab.ok) =>
             Fields(pTab.row)[2] = QuestionTextOf(RawLines[1])
        /\ (QtiDone /\ pQti.ok) =>
             pQti.question = QuestionTextOf(RawLines[1])

\* the pair of a matching line: first token, the others joined by a space
PairOfLine(line) ==
    LET parts == Tokens(stripSEUMetadata(line)) IN
    <<parts[1], Join(Tail(parts), <<" ">>)>>
PairLines(lines) ==
    {i \in 2..Len(lines) : Len(Tokens(stripSEUMetadata(lines[i]))) >= 2}

RECURSIVE ExpectedPairs(_, _)
ExpectedPairs(lines, i) ==
    IF i > Len(lines) THEN <<>>
    ELSE IF i \in PairLines(lines)
    THEN <<PairOfLine(lines[i])>> \o ExpectedPairs(lines, i + 1)
    ELSE ExpectedPairs(lines, i + 1)

\* C4: a matching block with a question line and at least one following
\* line of two or more tokens is accepted by parseMatching and by
\* parseMatchingData; the lines of fewer than two tokens are skipped and
\* the result holds one pair per remaining line, in input order.
C4_MatchingSucceeds ==
    (pKind = "mat" /\ HasQuestionText(RawLines) /\ PairLines(RawLines) # {}) =>
        /\ TabDone =>
             /\ pTab.ok
             /\ Fields(pTab.row) = <<K_MAT, QuestionTextOf(RawLines[1])>>
                                   \o Flatten(ExpectedPairs(RawLines, 2))
        /\ QtiDone =>
             /\ pQti.ok
             /\ pQti.pairs = ExpectedPairs(RawLines, 2)

\* the number of 'correct' tags of a multiple-choice row
CorrectTags(row) ==
    Cardinality({k \in 2..(Len(Fields(row)) \div 2) : Fields(row)[2 * k] = S_correct})

\* C5 as stated: for every block parseMCQ accepts, the number of 'correct'
\* tags of the row equals the number of lines of the block that contain an
\* asterisk.
C5_TagsCountAsteriskLines ==
    (pKind = "mcq" /\ TabDone /\ pTab.ok) =>
        CorrectTags(pTab.row)
            = Cardinality({i \in 1..Len(RawLines) : Includes(RawLines[i], "*")})

\* C5 amended: for every block parseMCQ accepts, the number of 'correct'
\* tags of the row equals the number of lines after the question line that
\* contain an asterisk and hold a non-empty choice.
C5_TagsCountMarkedChoices ==
    (pKind = "mcq" /\ TabDone /\ pTab.ok) =>
        CorrectTags(pTab.row) = Cardinality(MarkedChoiceLines(RawLines))

\* C5 happens: an accepted block whose question line holds an asterisk and
\* one of whose marked lines holds no choice
C5_Witness ==
    /\ pKind = "mcq" /\ TabDone /\ pTab.ok
    /\ pBlock = QL_Star \o NL \o CL_Marked \o NL \o CL_OnlyStar

\* C10: a true/false block with a question line and no marked answer line
\* (or no answer line at all) is accepted, and its answer is false in the
\* row and in the record.
C10_UnmarkedIsFalse ==
    (pKind = "tf" /\ HasQuestionText(RawLines) /\ MarkedLines(RawLines) = {}) =>
        /\ TabDone =>
             /\ pTab.ok
             /\ Fields(pTab.row)[Len(Fields(pTab.row))] = S_false
        /\ QtiDone =>
             /\ pQti.ok
             /\ pQti.correctAnswer = FALSE


MarkedTrue(lines)  == {i \in MarkedLines(lines) : NamesTrue(lines[i])}
MarkedFalse(lines) == {i \in MarkedLines(lines) : NamesFalse(lines[i])}
LastMarked(lines)  == lines[SetMax(MarkedTrue(lines) \cup MarkedFalse(lines))]

\* C11: when a true/false block marks both a True line and a False line, the
\* answer is the sense of the marked line that comes last, in the row of
\* parseTrueFalse and in the record of parseTFData.
C11_LastMarkedWins ==
    (/\ pKind = "tf" /\ HasQuestionText(RawLines)
     /\ MarkedTrue(RawLines) # {} /\ MarkedFalse(RawLines) # {}) =>
        /\ TabDone =>
             /\ pTab.ok
             /\ Fields(pTab.row)[Len(Fields(pTab.row))] =
                  (IF NamesTrue(LastMarked(RawLines)) THEN S_true ELSE S_false)
        /\ QtiDone =>
             /\ pQti.ok
             /\ pQti.correctAnswer = NamesTrue(LastMarked(RawLines))

\* the line k of a numeric block as the parser is to read it: its metadata
\* stripped, '' when the block has no such line
NumericLine(lines, k) == IF Len(lines) >= k THEN stripSEUMetadata(lines[k]) ELSE <<>>

\* C12: for every numeric block with a question text and an answer
\* parseNumericResponse returns the row NUM, question text, answer; the
\* tolerance is a fourth field exactly when a third line exists and is not
\* empty once stripped; without it the row has three fields and does not end
\* with a tab.
C12_NumericRow ==
    (/\ pKind = "num" /\ TabDone /\ HasQuestionText(RawLines)
     /\ NumericLine(RawLines, 2) # <<>>) =>
        /\ pTab.ok
        /\ Fields(pTab.row) =
             <<K_NUM, QuestionTextOf(RawLines[1]), NumericLine(RawLines, 2)>>
             \o (IF NumericLine(RawLines, 3) # <<>>
                 THEN <<NumericLine(RawLines, 3)>> ELSE <<>>)
        /\ NumericLine(RawLines, 3) = <<>> =>
             /\ Len(Fields(pTab.row)) = 3
             /\ pTab.row[Len(pTab.row)] # "\t"
        /\ pBlock = EX_NUM =>
             pTab.row = K_NUM \o TAB \o <<"2","+","2","?">> \o TAB \o NL_Answer
                        \o TAB \o NL_Tolerance

\* C12 happens: a block whose third line holds nothing but an annotation has
\* been parsed into a row
C12_Witness ==
    /\ pKind = "num" /\ TabDone /\ pTab.ok
    /\ Len(RawLines) = 3
    /\ NumericLine(RawLines, 3) = <<>>

\* C13: a numeric block without an answer (no second line, or a second line
\* that is empty once its metadata is stripped) is rejected on both paths:
\* parseNumericResponse throws and parseNumericData returns no record.
C13_EmptyAnswerRejected ==
    (pKind = "num" /\ NumericLine(RawLines, 2) = <<>>) =>
        /\ TabDone => ~pTab.ok
        /\ QtiDone => ~pQti.ok

\* the answers the layout asks for, from line i on: every line that is not
\* empty once its metadata is stripped, as it stands, in input order
RECURSIVE ExpectedAnswers(_, _)
ExpectedAnswers(lines, i) ==
    IF i > Len(lines) THEN <<>>
    ELSE IF stripSEUMetadata(lines[i]) # <<>>
    THEN <<stripSEUMetadata(lines[i])>> \o ExpectedAnswers(lines, i + 1)
    ELSE ExpectedAnswers(lines, i + 1)

\* C14: a fill-in-blank block is accepted exactly when it has a question text
\* and at least one answer line that is not empty once stripped; the row is
\* FIB, question text, then those answers as they stand and in input order,
\* and the record holds the same answers; the block of scenario C gives FIB,
\* Largest planet?, Jupiter.
C14_FillInBlankRow ==
    pKind = "fib" =>
        /\ TabDone =>
             /\ pTab.ok <=> (HasQuestionText(RawLines) /\ ExpectedAnswers(RawLines, 2) # <<>>)
             /\ pTab.ok => Fields(pTab.row) =
                             <<K_FIB, QuestionTextOf(RawLines[1])>> \o ExpectedAnswers(RawLines, 2)
             /\ pBlock = EX_FIB =>
                  pTab.row = K_FIB \o TAB \o <<"L","a","r","g","e","s","t"," ","p","l","a","n","e","t","?">>
                             \o TAB \o FL_Answer
        /\ QtiDone =>
             /\ pQti.ok <=> (HasQuestionText(RawLines) /\ ExpectedAnswers(RawLines, 2) # <<>>)
             /\ pQti.ok => pQti.answers = ExpectedAnswers(RawLines, 2)

\* C14 happens: a block with a marked answer line and a line that holds
\* nothing but an annotation has gone through both parsers
C14_Witness ==
    /\ pKind = "fib" /\ QtiDone /\ pTab.ok /\ pQti.ok
    /\ Len(RawLines) = 3
    /\ \E i \in 2..3 : stripSEUMetadata(RawLines[i]) = <<>>
    /\ \E i \in 2..3 : Includes(RawLines[i], "*")

\* s is a numbering marker and nothing else: digits and '.', or one letter
\* and ')'
BareMarker(s) ==
    \/ Len(s) >= 2 /\ s[Len(s)] = "." /\ \A k \in 1..(Len(s) - 1) : s[k] \in Digit
    \/ Len(s) = 2 /\ ToLowerChar(s[1]) \in Letter /\ s[2] = ")"

\* what is left of the question line once its metadata groups and its
\* numbering marker are taken away, white space apart
RECURSIVE WithoutGroups(_, _)
WithoutGroups(s, depth) ==
    IF s = <<>> THEN <<>>
    ELSE IF s[1] \in {"(", "["} THEN WithoutGroups(Tail(s), depth + 1)
    ELSE IF s[1] \in {")", "]"} THEN WithoutGroups(Tail(s), depth - 1)
    ELSE IF depth > 0 THEN WithoutGroups(Tail(s), depth)
    ELSE <<s[1]>> \o WithoutGroups(Tail(s), depth)

NothingButMarker(line) ==
    \/ Trim(WithoutGroups(line, 0)) = <<>>
    \/ BareMarker(Trim(WithoutGroups(line, 0)))

\* C26: a block whose question line holds nothing but metadata and a
\* numbering marker ('1. ', '1. (LO1)') is refused by every parser, so the
\* question text of every row and of every record is not empty and is not
\* just a marker.
C26_QuestionTextRequired ==
    /\ (TabDone /\ pTab.ok) =>
         /\ ~NothingButMarker(RawLines[1])
         /\ Fields(pTab.row)[2] # <<>>
         /\ ~BareMarker(Fields(pTab.row)[2])
    /\ (QtiDone /\ pQti.ok) =>
         /\ ~NothingButMarker(RawLines[1])
         /\ pQti.question # <<>>
         /\ ~BareMarker(pQti.question)

\* a choice line opens with a letter marker: one letter, then '.', ')' or
\* white space
HasLetterMarker(s) ==
    /\ Len(s) >= 2
    /\ ToLowerChar(s[1]) \in Letter
    /\ s[2] \in {".", ")"} \cup Space

\* the stripped line with only a leading letter marker and the asterisks
\* removed
MarkerlessText(s) ==
    Trim(SelectSeq(
        IF HasLetterMarker(s)
        THEN DropSpaces(DropChar(DropSpaces(DropChar(Tail(s), ")")), "."))
        ELSE s,
        NotAsterisk))

\* the texts of the non-empty choices of the lines from i on, T(line) being
\* the text of one line
RECURSIVE TextsFrom(_, _, _)
TextsFrom(T(_), lines, i) ==
    IF i > Len(lines) THEN <<>>
    ELSE IF T(lines[i]) # <<>> THEN <<T(lines[i])>> \o TextsFrom(T, lines, i + 1)
    ELSE TextsFrom(T, lines, i + 1)

TabMarkerlessText(line) == MarkerlessText(stripSEUMetadata(line))
QtiMarkerlessText(line) == MarkerlessText(stripQTIMetadata(line))

\* the choice texts of a row: its fields 3, 5, 7, ...
RowChoiceTexts(row) ==
    [j \in 1..((Len(Fields(row)) - 2) \div 2) |-> Fields(row)[2 * j + 1]]
RecordChoiceTexts(data) == [j \in 1..Len(data.choices) |-> data.choices[j].text]

\* C27: the stored text of a choice of a multiple-choice or multiple-answer
\* block, in a row and in a record, is the stripped line with only a leading
\* letter marker (one letter followed by '.', ')' or white space) and all
\* asterisks removed; a line with no such marker, 'Paris*', keeps every
\* letter.
C27_OnlyMarkerRemoved ==
    /\ (pKind \in {"mcq", "ma"} /\ TabDone /\ pTab.ok) =>
         RowChoiceTexts(pTab.row) = TextsFrom(TabMarkerlessText, RawLines, 2)
    /\ (pKind \in {"mcq", "ma"} /\ QtiDone /\ pQti.ok) =>
         RecordChoiceTexts(pQti) = TextsFrom(QtiMarkerlessText, RawLines, 2)

\* the answers a row holds, as fields: what follows the question text (an
\* essay row holds none, a numeric row the answer and the tolerance, the
\* empty text when there is none)
RowAnswers(kind, row) ==
    CASE kind = "essay" -> <<>>
      [] kind = "num"   -> <<Fields(row)[3],
                             IF Len(Fields(row)) > 3 THEN Fields(row)[4] ELSE <<>>>>
      [] OTHER          -> SubSeq(Fields(row), 3, Len(Fields(row)))

\* the answers a record holds, as the same fields
RecordAnswers(kind, data) ==
    CASE kind \in {"mcq", "ma"} ->
           Flatten([j \in 1..Len(data.choices) |->
                      <<data.choices[j].text,
                        IF data.choices[j].isCorrect THEN S_correct ELSE S_incorrect>>])
      [] kind = "tf"    -> <<IF data.correctAnswer THEN S_true ELSE S_false>>
      [] kind = "essay" -> <<>>
      [] kind = "fib"   -> data.answers
      [] kind = "mat"   -> Flatten(data.pairs)
      [] kind = "num"   -> <<data.answer, data.tolerance>>

\* C28: the two output paths agree on every block: parse<Kind> returns a row
\* exactly when parse<Kind>Data returns a record, and the row and the record
\* then hold the same question text and the same answers.
C28_PathsAgree ==
    QtiDone =>
        /\ pTab.ok <=> pQti.ok
        /\ (pTab.ok /\ pQti.ok) =>
             /\ Fields(pTab.row)[2] = pQti.question
             /\ RowAnswers(pKind, pTab.row) = RecordAnswers(pKind, pQti)

----------------------------------------------------------------------------
(* Properties of the prefix extractors (SpecPrefix)                        *)

\* how many leading characters of s lie in `set`
LeadingRun(s, set) ==
    SetMax({n \in 0..Len(s) : \A k \in 1..n : s[k] \in set})

\* length of a leading '<digits>.' and whitespace, 0 when there is none
NumericMarkerLen(s) ==
    LET d == LeadingRun(s, Digit)
        w == LeadingRun(SubSeq(s, d + 2, Len(s)), Space)
    IN  IF d >= 1 /\ Len(s) > d /\ s[d + 1] = "." /\ w >= 1 THEN d + 1 + w ELSE 0

\* length of a leading single letter, ')' and whitespace, 0 when there is none
LetterMarkerLen(s) ==
    IF Len(s) >= 3 /\ ToLowerChar(s[1]) \in Letter /\ s[2] = ")" /\ s[3] \in Space
    THEN 2 + LeadingRun(SubSeq(s, 3, Len(s)), Space)
    ELSE 0

MarkerLen(s) ==
    IF NumericMarkerLen(s) > 0 THEN NumericMarkerLen(s) ELSE LetterMarkerLen(s)

T_NumberedLettered == <<"1", ".", " ", "a", ")", " ", "X">>     \* '1. a) X'

\* C15: both prefix extractors take at most one leading marker: a leading
\* '<digits>.' and whitespace is the prefix and the lettered form is not tried
\* on what follows ('1. a) X' leaves 'a) X'); otherwise a leading single
\* letter, ')' and whitespace is the prefix; otherwise the prefix is empty;
\* the remainder is always the input without the prefix, trimmed.
C15_AtMostOneMarker ==
    \A e \in {"seu", "qti"} :
        xPc[e] = 1 =>
            /\ xOut[e].prefix = SubSeq(xIn, 1, MarkerLen(xIn))
            /\ xOut[e].cleaned = Trim(SubSeq(xIn, MarkerLen(xIn) + 1, Len(xIn)))
            /\ (xIn = T_NumberedLettered => xOut[e].cleaned = <<"a", ")", " ", "X">>)

----------------------------------------------------------------------------
(* Properties of block splitting (SpecSplit)                               *)

\* s begins with a marker the split of a buffer of this kind looks for
SplitMarker(kind, s) ==
    \/ NumericMarkerLen(s) > 0
    \/ /\ kind = "essay"
       /\ Len(s) >= 3 /\ ToLowerChar(s[1]) \in LetterRange
       /\ s[2] = ")" /\ s[3] \in Space

\* the line breaks of the text that a marker follows
LineStartMarkers(kind, text) ==
    {j \in 1..Len(text) :
        text[j] = "\n" /\ SplitMarker(kind, SubSeq(text, j + 1, Len(text)))}

\* the blocks are the text cut at line breaks, less a blank start
CutOfText(blocks, text) ==
    \E k \in 0..Len(text) :
        /\ Trim(SubSeq(text, 1, k)) = <<>>
        /\ SubSeq(text, k + 1, Len(text)) = Join(blocks, <<"\n">>)

\* the buffer from the start of its i-th block on
FromBlock(blocks, i) == Join(SubSeq(blocks, i, Len(blocks)), <<"\n">>)

HasBlankLine(block) ==
    \E j \in 1..Len(block) :
        block[j] = "\n" /\ (j = Len(block) \/ block[j + 1] = "\n")

\* C16: for every kind and on both paths, a buffer that is not blank is cut
\* into at least one block; a buffer with no marker at the start of a later
\* line is one block holding the whole buffer; every block after the first
\* begins where a marker begins in the buffer; the blocks are cut from the text as typed, blank
\* lines included, and the blank lines go only when a block is read.
C16_NeverZeroBlocks ==
    \A e \in {"seu", "qti"} :
        (sPc[e] = 1 /\ Trim(sText) # <<>>) =>
            /\ Len(sBlocks[e]) >= 1
            /\ (LineStartMarkers(sKind, sText) = {} => sBlocks[e] = <<sText>>)
            /\ \A i \in 2..Len(sBlocks[e]) : SplitMarker(sKind, FromBlock(sBlocks[e], i))
            /\ CutOfText(sBlocks[e], sText)
            /\ \A i \in 1..Len(sBlocks[e]) :
                   \A l \in 1..Len(TrimmedLines(sBlocks[e][i])) :
                       TrimmedLines(sBlocks[e][i])[l] # <<>>

C16_Witness ==
    /\ sPc = [seu |-> 1, qti |-> 1]
    /\ sKind = "tf"
    /\ Len(sBlocks.seu) = 2 /\ Len(sBlocks.qti) = 2
    /\ HasBlankLine(sBlocks.seu[1]) /\ HasBlankLine(sBlocks.qti[1])

----------------------------------------------------------------------------
(* Properties of the item generators (SpecExport)                          *)

Entities == {E_amp, E_lt, E_gt, E_quot, E_apos}

EntityOf(c) ==
    CASE c = "&"  -> E_amp
      [] c = "<"  -> E_lt
      [] c = ">"  -> E_gt
      [] c = "\"" -> E_quot
      [] c = "'"  -> E_apos
      [] OTHER    -> <<c>>

\* each reserved character of s replaced by its entity, once
EscapedOnce(s) == Flatten([i \in 1..Len(s) |-> EntityOf(s[i])])

\* no reserved character in t but the & that starts an entity
NoRawReserved(t) ==
    \A j \in 1..Len(t) :
        /\ t[j] \notin {"<", ">", "\"", "'"}
        /\ t[j] = "&" => \E e \in Entities : SubSeq(t, j, j + Len(e) - 1) = e

\* the texts of a record that came from the block, in the order of the
\* document its generator makes
UserTexts(kind, data) ==
    CASE kind \in {"mcq", "ma"} ->
            <<data.question>> \o [i \in 1..Len(data.choices) |-> data.choices[i].text]
      [] kind \in {"essay", "tf"} -> <<data.question>>
      [] kind = "fib" -> data.answers \o <<data.question>>
      [] kind = "mat" ->
            <<data.question>> \o [i \in 1..Len(data.pairs) |-> data.pairs[i][1]]
                              \o [i \in 1..Len(data.pairs) |-> data.pairs[i][2]]
      [] kind = "num" -> <<data.answer, data.question>>

\* the texts of the document at the places that take a text of the block
IsUserPlace(e) == e.tag \in {"div", "simpleChoice"}
InsertedTexts(kind, xml) ==
    IF kind = "tf" THEN <<xml[2].text>>
    ELSE IF kind \in {"mcq", "ma"}
    THEN [i \in 1..Len(SelectSeq(xml, IsUserPlace)) |-> SelectSeq(xml, IsUserPlace)[i].text]
    ELSE [i \in 1..Len(xml) |-> xml[i].text]

\* C20: every text of the block that a generator puts into its document,
\* the question, the choices, the fill-in-the-blank answers, both sides of
\* a pair and the numeric answer, stands there with each of & < > " '
\* replaced by its entity exactly once, and the document holds no reserved
\* character of the block as typed.
C20_InsertedTextEscaped ==
    (pPc = "exported" /\ pQti.ok) =>
        /\ InsertedTexts(pKind, pXml)
             = [i \in 1..Len(UserTexts(pKind, pQti)) |->
                   EscapedOnce(UserTexts(pKind, pQti)[i])]
        /\ \A i \in 1..Len(pXml) : NoRawReserved(pXml[i].text)

\* the texts of the elements of a document that carry a tag, in order
IsValue(e)        == e.tag = "value"
IsIdentifier(e)   == e.tag = "identifier"
IsMaxChoices(e)   == e.tag = "maxChoices"
IsSimpleChoice(e) == e.tag = "simpleChoice"
IsCorrectChoice(c) == c.isCorrect
TextsOf(es) == [i \in 1..Len(es) |-> es[i].text]

\* the identifiers of the choices of a record, and of those that are correct
ChoiceIds(choices) == [i \in 1..Len(choices) |-> choices[i].id]
CorrectChoiceIds(data) == ChoiceIds(SelectSeq(data.choices, IsCorrectChoice))

\* an item of a choice kind has been generated from a record
ChoiceItemDone == pPc = "exported" /\ pKind \in {"mcq", "ma"} /\ pQti.ok

\* C23: the document generateMCQXML makes for a multiple-choice or
\* multiple-answer record has one option per choice, in choice order, each
\* with the identifier of its choice; its maximum-selectable-count is 1 for
\* multiple choice and 0 (unbounded) for multiple answer; its
\* correct-response declaration lists exactly the identifiers of the
\* choices with isCorrect = true, in choice order.
C23_ChoiceItem ==
    ChoiceItemDone =>
        /\ TextsOf(SelectSeq(pXml, IsIdentifier)) = ChoiceIds(pQti.choices)
        /\ \A i \in 1..Len(pXml) :
              IsIdentifier(pXml[i]) =>
                  /\ i < Len(pXml)
                  /\ IsSimpleChoice(pXml[i + 1])
                  /\ \E j \in 1..Len(pQti.choices) :
                        /\ pQti.choices[j].id = pXml[i].text
                        /\ pXml[i + 1].text = EscapedOnce(pQti.choices[j].text)
        /\ Len(SelectSeq(pXml, IsSimpleChoice)) = Len(pQti.choices)
        /\ TextsOf(SelectSeq(pXml, IsMaxChoices))
             = << <<IF pKind = "ma" THEN "0" ELSE "1">> >>
        /\ TextsOf(SelectSeq(pXml, IsValue)) = CorrectChoiceIds(pQti)

\* C23 happens: a multiple-answer item of two choices, one of them correct,
\* has been generated
C23_Witness ==
    /\ ChoiceItemDone
    /\ pQti.type = "MA"
    /\ Len(pQti.choices) = 2
    /\ Len(CorrectChoiceIds(pQti)) = 1

\* C30: the correct-response declaration of a multiple-choice item lists no
\* more identifiers than its maximum-selectable-count of 1: a block with
\* more than one marked choice gives no item that cannot be answered with
\* full score.
C30_AnswerableItem ==
    (pPc = "exported" /\ pKind = "mcq" /\ pQti.ok) =>
        /\ TextsOf(SelectSeq(pXml, IsMaxChoices)) = << <<"1">> >>
        /\ Len(SelectSeq(pXml, IsValue)) <= 1

---------------------------------------------------------------------------
(* Properties of downloadQTI (SpecDownload)                                *)

Range(s) == {s[i] : i \in 1..Len(s)}
NoRepeats(s) == Cardinality(Range(s)) = Len(s)

\* the blocks processTextArea finds in the buffer of a kind, and those of
\* them the parser of the kind returns a record for
DownloadBlocks(kind) ==
    IF Trim(texts[kind]) = <<>> THEN <<>> ELSE QtiBlocksOfBuffer(kind, texts[kind])
ParsingBlocks(kind) ==
    {i \in 1..Len(DownloadBlocks(kind)) : QtiParser(kind, DownloadBlocks(kind)[i]).ok}
FailingBlocks(kind) == (1..Len(DownloadBlocks(kind))) \ ParsingBlocks(kind)
RECURSIVE ParsedCountFrom(_)
ParsedCountFrom(k) ==
    IF k > Len(KindOrder) THEN 0
    ELSE Cardinality(ParsingBlocks(KindOrder[k])) + ParsedCountFrom(k + 1)

\* the files of an archive by the place and the form of their names
IsItemPath(path) ==
    Len(path) > 3 /\ path[1] = "qti21/" /\ path[2] = "item_" /\ path[Len(path)] = ".xml"
IsTestPath(path) ==
    Len(path) > 3 /\ path[1] = "qti21/" /\ path[2] = "question_bank_"
    /\ path[Len(path)] = ".xml"
IdOfPath(path) == SubSeq(path, 3, Len(path) - 1)
Paths(files) == [j \in 1..Len(files) |-> files[j].path]
ItemFileIds(files) == [j \in 1..Len(SelectSeq(Paths(files), IsItemPath)) |->
                         IdOfPath(SelectSeq(Paths(files), IsItemPath)[j])]
ContentAt(files, path) == files[CHOOSE j \in 1..Len(files) : files[j].path = path].content

\* the resources of a manifest: that of the test, and those of the items
IsTestResource(r) == r.type = "imsqti_test_xmlv2p1"
IsItemResource(r) == r.type = "imsqti_item_xmlv2p1"
Identifiers(rs) == [i \in 1..Len(rs) |-> rs[i].identifier]
ItemIds(its) == [i \in 1..Len(its) |-> its[i].id]

\* an archive holds its items, test document and manifest in one-to-one
\* correspondence: its files, the item ids of the export and the manifest
ArchiveConsistent(files, its, manifest) ==
    /\ NoRepeats(ItemIds(its))
    /\ NoRepeats(Paths(files))
    /\ ItemFileIds(files) = ItemIds(its)
    /\ Len(SelectSeq(manifest.resources, IsTestResource)) = 1
    /\ Identifiers(SelectSeq(manifest.resources, IsItemResource)) = ItemIds(its)
    /\ \A r \in Range(manifest.resources) :
          /\ r.href \in Range(Paths(files))
          /\ r.file \in Range(Paths(files))
          /\ IsItemResource(r) => r.href = InFolder(ItemFilename(r.identifier))
          /\ IsTestResource(r) =>
                /\ r.dependencies = ItemIds(its)
                /\ IsTestPath(r.href)
                /\ Identifiers(ContentAt(files, r.href).itemRefs) = ItemIds(its)
                /\ \A ref \in Range(ContentAt(files, r.href).itemRefs) :
                      InFolder(ref.href) = InFolder(ItemFilename(ref.identifier))

\* C21: after an export that produces a file, the parsed items, the item
\* files of the archive, the item references of the test document, the item
\* resources of the manifest and the dependencies of the manifest's test
\* resource correspond one to one by item id; the test resource points to
\* the path the test document is stored under; every path the manifest
\* names is a file of the archive.
C21_ArchiveConsistent ==
    \A k \in 1..Len(offered) :
        /\ Len(items) = ParsedCountFrom(1)
        /\ ArchiveConsistent(offered[k].files, items,
                             ContentAt(offered[k].files, ManifestPath))

\* C21 happens: an archive of items of four kinds has been handed over,
\* from buffers of which one block did not parse
C21_Witness ==
    /\ dPc = "done" /\ Len(offered) = 1
    /\ Len(items) >= 5
    /\ FailingBlocks("mcq") # {}

\* the files of an archive: a manifest under the given root name, one item
\* file per item of the export named by the item's id, one test file named
\* by the identifier of the test document, which is no item's, and no other
ArchiveLayout(files, its, manifestPath) ==
    /\ Len(SelectSeq(Paths(files), LAMBDA p : p = manifestPath)) = 1
    /\ Len(manifestPath) = 1
    /\ ItemFileIds(files) = ItemIds(its)
    /\ NoRepeats(ItemIds(its))
    /\ Len(SelectSeq(Paths(files), IsTestPath)) = 1
    /\ \A p \in Range(Paths(files)) :
          IsTestPath(p) =>
              /\ IdOfPath(p) = ContentAt(files, p).identifier
              /\ IdOfPath(p) \notin Range(ItemIds(its))
    /\ Len(files) = Len(its) + 2

\* the claim as stated: the manifest is stored as 'manifest.xml'
C22_ManifestXml ==
    \A k \in 1..Len(offered) :
        ArchiveLayout(offered[k].files, items, <<"manifest.xml">>)

\* C22 (amended): every archive downloadQTI produces holds a manifest stored
\* as 'imsmanifest.xml' at the root, one item file per parsed question under
\* the folder qti21/ named by the item's id, and one test file in that
\* folder named by a freshly generated test id.
C22_ArchiveLayout ==
    \A k \in 1..Len(offered) :
        ArchiveLayout(offered[k].files, items, <<"imsmanifest.xml">>)

\* C22 happens: an archive of three items has been handed over
C22_Witness ==
    /\ dPc = "done" /\ Len(offered) = 1
    /\ Len(items) = 3
    /\ Len(offered[1].files) = 5

\* the texts of the notifications shown
NotifiedTexts == [i \in 1..Len(notified) |-> notified[i].text]
T_NoQuestions == "No questions to export."
T_ZipError    == "Error generating ZIP file."
T_NoLibrary   == "JSZip library not loaded. Please refresh the page."
AnyBlockParses == \E kind \in Kinds : ParsingBlocks(kind) # {}

\* what a run has shown and handed over when it is over, the archive
\* library being loaded
DownloadOutcome ==
    (dPc = "done" /\ T_NoLibrary \notin Range(NotifiedTexts)) =>
        IF ~AnyBlockParses
        THEN /\ NotifiedTexts = <<T_NoQuestions>>
             /\ offered = <<>> /\ zip = <<>>
        ELSE \/ Len(offered) = 1 /\ Range(NotifiedTexts) \cap {T_ZipError, T_NoQuestions} = {}
             \/ offered = <<>> /\ NotifiedTexts = <<T_ZipError>>

\* a download is handed over only by the step that ends a generation, and
\* a generation is started only when a block parses
DownloadStep ==
    /\ offered' # offered =>
          /\ dPc = "generating" /\ dPc' = "done"
          /\ T_ZipError \notin Range(NotifiedTexts')
    /\ dPc' = "generating" => AnyBlockParses
    /\ T_ZipError \in Range(NotifiedTexts') => offered' = <<>>

\* C24: a download is offered only after the asynchronous generation of the
\* archive has completed successfully; if it fails, no download is offered
\* and the error 'Error generating ZIP file.', distinct from every other
\* message, is shown; if no block of any kind parses, the generation is never
\* started and 'No questions to export.' is shown instead.
C24_DownloadAfterGeneration ==
    [](DownloadOutcome) /\ [][DownloadStep]_vars

\* C24 happens: the generation of an archive of parsed items has failed
C24_Witness ==
    /\ dPc = "done" /\ hasQuestions
    /\ offered = <<>>
    /\ NotifiedTexts = <<T_ZipError>>

\* C25: an export completes or fails as a whole: when a block of a buffer
\* does not parse, no archive without that block is handed over.
C25_NoSilentOmission ==
    (\E kind \in Kinds : FailingBlocks(kind) # {}) => offered = <<>>

---------------------------------------------------------------------------
(* Properties of convertQuestions (Spec)                                   *)

ChoiceKinds == {"mcq", "ma"}
KindToken(kind) ==
    CASE kind = "mcq"   -> K_MC
      [] kind = "essay" -> K_ESS
      [] kind = "tf"    -> K_TF
      [] kind = "fib"   -> K_FIB
      [] kind = "ma"    -> K_MA
      [] kind = "mat"   -> K_MAT
      [] kind = "num"   -> K_NUM

\* the blocks of the buffer of a kind, and the lines of its i-th block
BufferBlocks(kind) == BlocksOfBuffer(kind, texts[kind])
BlockLines(kind, i) == TrimmedLines(BufferBlocks(kind)[i])

\* the lines of the output buffer
OutputRows == IF outputText = <<>> THEN <<>> ELSE Split(outputText, "\n")
RowsOfKind(kind) ==
    {j \in 1..Len(OutputRows) : Fields(OutputRows[j])[1] = KindToken(kind)}

\* the per-block error reasons, and those of the i-th block of a kind
BlockErrors == {j \in 1..Len(errors) : errors[j].label # "Warning"}
ErrorsAt(kind, i) ==
    {j \in BlockErrors : errors[j].label = ErrorLabel(kind) /\ errors[j].index = i}

NoCorrectAnswerReasons ==
    {"MCQ parsing error: MCQ must have at least one correct answer",
     "Multiple Answer parsing error: Multiple Answer must have at least one correct answer"}

\* no line after the question line holds an asterisk
Unmarked(lines) == \A i \in 2..Len(lines) : ~Includes(lines[i], "*")

\* C6 as stated: every multiple-choice or multiple-answer block in which no
\* choice line contains '*' fails with the reason 'at least one correct
\* answer'.
C6_UnmarkedBlockReason ==
    cPc = "converted" =>
        \A kind \in ChoiceKinds : \A i \in 1..Len(BufferBlocks(kind)) :
            Unmarked(BlockLines(kind, i)) =>
                \E j \in ErrorsAt(kind, i) : errors[j].msg \in NoCorrectAnswerReasons

\* C6 amended: a multiple-choice or multiple-answer block fails exactly when
\* it has no question text, no non-empty choice or no correct choice; one
\* that has a question text and a non-empty choice but no '*' on a line
\* after the question fails with the reason 'at least one correct answer';
\* a failing block adds no row to the output and nothing to the count.
C6_FailsExactlyWhen ==
    cPc = "converted" =>
        /\ \A kind \in ChoiceKinds : \A i \in 1..Len(BufferBlocks(kind)) :
            /\ ErrorsAt(kind, i) # {} <=> ~ValidChoiceBlock(BlockLines(kind, i))
            /\ ( /\ HasQuestionText(BlockLines(kind, i))
                 /\ ChoiceLines(BlockLines(kind, i)) # {}
                 /\ Unmarked(BlockLines(kind, i)) ) =>
                   \E j \in ErrorsAt(kind, i) : errors[j].msg \in NoCorrectAnswerReasons
        /\ \A kind \in ChoiceKinds :
            Cardinality(RowsOfKind(kind))
                = Cardinality({i \in 1..Len(BufferBlocks(kind)) :
                                 ValidChoiceBlock(BlockLines(kind, i))})
        /\ totalQuestions = Len(OutputRows)

\* C6 happens: the second block of the multiple-choice buffer has a question
\* and a choice but no marked line, and its reason has been collected
C6_Witness ==
    /\ cPc = "converted"
    /\ texts["mcq"] = BUF_MCQ_Mixed
    /\ \E j \in ErrorsAt("mcq", 2) : errors[j].msg \in NoCorrectAnswerReasons
    /\ totalQuestions = 2

\* C7: whatever the seven buffers hold, every block is attempted: the rows
\* of the output and the per-block reasons together are as many as the
\* blocks, each reason names its kind and the index of a block of that
\* kind, and the row of every block that parses is a line of the output.
C7_ErrorIsolation ==
    cPc = "converted" =>
        /\ \A kind \in Kinds :
             Cardinality(RowsOfKind(kind))
               + Cardinality({j \in BlockErrors : errors[j].label = ErrorLabel(kind)})
                 = Len(BufferBlocks(kind))
        /\ \A j \in BlockErrors : \E kind \in Kinds :
             /\ errors[j].label = ErrorLabel(kind)
             /\ errors[j].index \in 1..Len(BufferBlocks(kind))
        /\ \A kind \in Kinds : \A i \in 1..Len(BufferBlocks(kind)) :
             TabParser(kind, BufferBlocks(kind)[i]).ok =>
                \E j \in 1..Len(OutputRows) :
                    OutputRows[j] = TabParser(kind, BufferBlocks(kind)[i]).row

\* C17: every essay row of the output written by convertQuestions has exactly
\* three fields, ESS, the question text and an empty third field, wherever
\* the row stands in the output, the last line included.
C17_EssayRowThreeFields ==
    cPc = "converted" =>
        \A j \in RowsOfKind("essay") :
            /\ Len(Fields(OutputRows[j])) = 3
            /\ Fields(OutputRows[j])[2] # <<>>
            /\ Fields(OutputRows[j])[3] = <<>>

\* the rows of the blocks of a kind that parse, from the i-th block on, and
\* those of all the kinds from the k-th on
RowIfParsed(r) == IF r.ok THEN <<r.row>> ELSE <<>>
RECURSIVE ParsedRowsFrom(_, _)
ParsedRowsFrom(kind, i) ==
    IF i > Len(BufferBlocks(kind)) THEN <<>>
    ELSE RowIfParsed(TabParser(kind, BufferBlocks(kind)[i]))
         \o ParsedRowsFrom(kind, i + 1)

RECURSIVE ExpectedRowsFrom(_)
ExpectedRowsFrom(k) ==
    IF k > Len(KindOrder) THEN <<>>
    ELSE ParsedRowsFrom(KindOrder[k], 1) \o ExpectedRowsFrom(k + 1)

\* rows compared as lines, the white space at their ends apart
TrimEach(rows) == [j \in 1..Len(rows) |-> Trim(rows[j])]

\* the place of a row's kind in the order MC, ESS, TF, FIB, MA, MAT, NUM
KindPlace(row) ==
    CHOOSE k \in 1..Len(KindOrder) : KindToken(KindOrder[k]) = Fields(row)[1]

\* C18: the output holds one line for each block that parses and no other:
\* the lines are separated by single line breaks, none is blank, none
\* follows the last row, the kinds come in the order MC, ESS, TF, FIB, MA,
\* MAT, NUM and the rows of a kind in the order of its blocks, whichever
\* buffers are empty.
C18_OneLinePerQuestion ==
    cPc = "converted" =>
        /\ TrimEach(OutputRows) = TrimEach(ExpectedRowsFrom(1))
        /\ Len(OutputRows) = totalQuestions
        /\ \A j \in 1..Len(OutputRows) : Trim(OutputRows[j]) # <<>>
        /\ \A i, j \in 1..Len(OutputRows) :
              i < j => KindPlace(OutputRows[i]) <= KindPlace(OutputRows[j])
        /\ outputText # <<>> => outputText[Len(outputText)] # "\n"

C18_Witness ==
    /\ cPc = "converted"
    /\ texts["mcq"] = BUF_MCQ_Mixed /\ texts["essay"] = BUF_ESS_Two
    /\ texts["tf"] = <<>> /\ texts["num"] = BUF_NUM
    /\ Len(OutputRows) >= 4

\* the number of fields the layout of a kind gives the row of a block: the
\* kind and the question text, then two fields per non-empty choice or per
\* pair, one per non-empty answer, one answer for true/false, the empty
\* placeholder for essay, the answer and the tolerance if any for numeric
LayoutCountOK(kind, lines, n) ==
    CASE kind \in {"mcq", "ma"} -> n = 2 + 2 * Cardinality(ChoiceLines(lines))
      [] kind \in {"essay", "tf"} -> n = 3
      [] kind = "fib" ->
           n = 2 + Cardinality({i \in 2..Len(lines) : stripSEUMetadata(lines[i]) # <<>>})
      [] kind = "mat" -> n >= 4 /\ n % 2 = 0
      [] kind = "num" ->
           n = 3 + (IF NumericLine(lines, 3) # <<>> THEN 1 ELSE 0)

\* the row a parser returned for a block is one line of the layout's fields
RowWellFormed(kind, block, r) ==
    r.ok =>
        /\ ~Includes(r.row, "\n")
        /\ Len(Fields(r.row)) >= 2
        /\ LayoutCountOK(kind, TrimmedLines(block), Len(Fields(r.row)))

\* the warnings of the format validation among the errors
FormatWarnings == {j \in 1..Len(errors) : errors[j] = FormatWarning}

\* C29: no user text reaches a row with a tab or a newline in it: every row
\* a parser returns for a block of the buffers is one line with exactly the
\* fields of its kind's layout, at least two; validateTabDelimited accepts
\* the text convertQuestions builds from the rows, and the warning 'Output
\* format validation failed' is never among the errors.
C29_RowsValidate ==
    cPc = "converted" =>
        /\ \A kind \in Kinds : \A i \in 1..Len(BufferBlocks(kind)) :
              \A r \in {TabParser(kind, BufferBlocks(kind)[i])} :
                  RowWellFormed(kind, BufferBlocks(kind)[i], r)
        /\ validateTabDelimited(Join(ExpectedRowsFrom(1), NL))
        /\ FormatWarnings = {}

\* C29 happens: an answer with a tab in it has been converted into a row
C29_Witness ==
    /\ cPc = "converted"
    /\ texts["fib"] = BUF_FIB_Tab
    /\ \E j \in RowsOfKind("fib") :
          Fields(OutputRows[j]) = <<K_FIB, <<"F","a","r","?">>,
                                    <<"I","o"," ","E","u","r","o","p","a">>>>

----------------------------------------------------------------------------
(* Properties of a batch (SpecBatch)                                       *)

\* the rows of the blocks of a kind that parse, from the i-th block on, and
\* those of all the kinds from the k-th on
RECURSIVE BatchRowsFrom(_, _)
BatchRowsFrom(kind, i) ==
    IF i > Len(bBlocks[kind]) THEN <<>>
    ELSE RowIfParsed(TabParser(kind, bBlocks[kind][i])) \o BatchRowsFrom(kind, i + 1)

RECURSIVE AllBatchRowsFrom(_)
AllBatchRowsFrom(k) ==
    IF k > Len(KindOrder) THEN <<>>
    ELSE BatchRowsFrom(KindOrder[k], 1) \o AllBatchRowsFrom(k + 1)

BatchWarnings == {j \in 1..Len(errors) : errors[j] = BatchWarning}

\* `text` is `written` and white space after it, `written` ending with none
WrittenTrimmed(written, text) ==
    /\ Len(written) <= Len(text)
    /\ SubSeq(text, 1, Len(written)) = written
    /\ \A j \in (Len(written) + 1)..Len(text) : text[j] \in Space
    /\ written # <<>> => written[Len(written)] \notin Space

BatchAsExpected(rows) ==
    /\ totalQuestions = Len(rows)
    /\ \E text \in {Join(rows, NL)} : WrittenTrimmed(outputText, text)
    /\ Cardinality(BatchWarnings) = (IF Len(rows) > 250 THEN 1 ELSE 0)

\* C19: with more than 250 converted questions every row is still written
\* and the errors hold exactly one batch-size warning; with 250 or fewer
\* they hold none; the rows are the same with and without the warning.
C19_BatchWarning ==
    cPc = "converted" /\ bBlocks # NoBlocks =>
        \E rows \in {AllBatchRowsFrom(1)} : BatchAsExpected(rows)

C19_Witness ==
    /\ cPc = "converted"
    /\ Len(bBlocks["tf"]) = 251
    /\ totalQuestions = 251
    /\ Cardinality(BatchWarnings) = 1

---------------------------------------------------------------------------
(* Properties of the Normalizer (SpecNorm)                                 *)

\* C8: the Normalizer is idempotent, for stripSEUMetadata and for
\* stripQTIMetadata, also on groups nested deeper than the retry cap.
C8_Idempotent ==
    /\ nPc.seu = 2 => nOut.seuAgain = nOut.seu
    /\ nPc.qti = 2 => nOut.qtiAgain = nOut.qti

\* the pieces that hold no outcome, module, difficulty or author annotation
OrdinaryPieces == {NP_Text, NP_Words, NP_Spaces, NP_Page, NP_Note}
RECURSIVE OrdinaryTexts(_)
OrdinaryTexts(n) ==
    IF n = 0 THEN {<<>>}
    ELSE OrdinaryTexts(n - 1) \cup {t \o a : t \in OrdinaryTexts(n - 1), a \in OrdinaryPieces}

\* whitespace runs collapsed to one space, and trimmed
Collapsed(s) == Trim(ReplaceAll(WHITESPACE, <<" ">>, s))

\* C9: of a string none of whose groups is a metadata annotation the
\* Normalizer returns the string itself, whitespace collapsed and trimmed.
C9_PreservesContent ==
    (nIn \in OrdinaryTexts(MaxPieces + 1) /\ nPc.seu >= 1) => nOut.seu = Collapsed(nIn)

=============================================================================
